---- MODULE Spec2Model ----
(***************************************************************************)
(* A model of rig-go's RPC runtime: one accepted WebSocket connection of   *)
(* rig/mrpc (MessagePack tuples) or rig/jrpc (JSON objects), its read      *)
(* loop, the goroutine it starts per inbound request, the Scope each       *)
(* handler responds through, and the frames that reach the transport.      *)
(***************************************************************************)
EXTENDS Integers, Sequences, FiniteSets, TLC

\* Bounds of the model: requests dispatched on the connection, and Scope
\* calls issued by user functions (all handlers together).
MaxRequests == 2
MaxOps == 2

\* Bound of the configuration model: the Use options given to Handle.
MaxUse == 3

\* The most hooks given to one hook.Order.
MaxHooks == 3

\* The most options given to one api.Rig, the begin and the end of a Group
\* counted as one each.
MaxApiOptions == 5

\* The most frames of the other type the peer sends on one connection, and
\* the requests it sends on a connection that carries such frames.
MaxSkipped == 2
MaxFramedRequests == 1

\* The goroutines that call Apply and Serve on one rig.Config.
MaxCallers == 3

\* The most hooks one Config holds, the most options given to one Apply
\* and the most listeners given to one serveListeners.
MaxRigHooks == 2
MaxRigOptions == 2
MaxListeners == 2

\* The goroutines that call Shutdown on one watcher, and the file system
\* events fsnotify delivers to it.
MaxShutdowns == 2
MaxEvents == 2


VARIABLES
    proto,      \* which package serves the connection: "mrpc" or "jrpc"
    loop,       \* serveHTTP: "reading", "wait" (deferred group.Wait), "returned"
    result,     \* serveHTTP's return value: "pending", "nil" or "error"
    conn,       \* the transport: "open", "closed" (by the peer or by a
                \* failure), "closedNow" (c.CloseNow)
    ctxDone,    \* r.Context() is cancelled
    scopes,     \* the Scopes made by For, in dispatch order
    outbox,     \* frames handed to send whose c.Write has not started writing
    writing,    \* frames c.Write is putting on the wire
    wire,       \* the chunks written to the transport, in order
    ops,        \* Scope calls issued by user functions so far
    process,    \* the serving process: "running", or "panicked" (an
                \* unrecovered panic in a goroutine ends the process)
    options,    \* Handle(options...): the options cfg.init has yet to apply
    handler,    \* cfg.handler: the middleware around handleRequest, the
                \* outermost first
    stack,      \* the middleware a dispatched request is inside of, the
                \* innermost first
    log,        \* what a dispatched request has entered and left, in order
    tables,     \* cfg.callHandlers, cfg.startHandlers, cfg.procHandlers as
                \* Handle's options have filled them
    hooks,      \* hook.Order: its argument
    dependencies, \* hook.Order: the hooks providing each name, in order
    placed,     \* hook.Order: the hooks marked placed
    order,      \* hook.Order: the hooks appended to the result so far
    frames,     \* hook.Order: the running calls of place, the innermost first
    next,       \* hook.Order: the index of the final loop
    returned,   \* hook.Order has returned order
    response,   \* a protocol.Response to encode
    bytes,      \* what encoding it gave: the values written, or an error
    decoded,    \* what the client reads back from the bytes
    apiOptions, \* api.Rig(options...): the options given
    applied,    \* how many of them cfg.apply has applied
    old,        \* the old.middleware of every Group being applied, innermost first
    middleware, \* api config.middleware
    patternHandlers, \* api config.patternHandlers
    passed,     \* what a request to a pattern has passed through, in order
    skipped,    \* serveHTTP: for each frame of the other type it read, the
                \* requests it had dispatched before
    quota,      \* the requests the peer sends on the connection
    serve,      \* rig Config.serve
    serving,    \* rig Config.serving
    cfgHooks,   \* rig Config.hooks
    callers,    \* the goroutines calling Apply or Serve on the Config, each
                \* with its position and its return value
    servers,    \* the server.Serve goroutines serveListeners has started
    processing, \* watcher.process: "select", "alert" (in issueAlert's
                \* select), "close" (about to close doneCh), "returned"
    doneCh,     \* watcher.doneCh is closed
    shutdowns,  \* the goroutines calling Shutdown, each "idle", "select"
                \* (in Shutdown's select) or "returned"
    events,     \* the events fsnotify has delivered
    listening,  \* a goroutine is receiving from Alert()
    alerts      \* the alerts it has received

\* One connection and the handlers serving it.
connection == <<proto, loop, result, conn, ctxDone, scopes, outbox, writing,
                wire, ops, process>>

\* The configuration of Handle and the path of one request through its
\* middleware.
setup == <<options, handler, stack, log, tables>>

\* One call of hook.Order.
ordering == <<hooks, dependencies, placed, order, frames, next, returned>>

\* One Response through its encoding and back.
codec == <<response, bytes, decoded>>

\* The configuration of the api package and one request to a pattern.
routes == <<apiOptions, applied, old, middleware, patternHandlers, passed>>

\* The frames of the other type on the connection.
framing == <<skipped, quota>>

\* One rig.Config and the goroutines using it.
rigging == <<serve, serving, cfgHooks, callers, servers>>

\* One watcher, the goroutines shutting it down and the one it alerts.
watching == <<processing, doneCh, shutdowns, events, listening, alerts>>

vars == <<connection, setup, ordering, codec, routes, framing, rigging, watching>>

----------------------------------------------------------------------------
\* Configuration: the handler tables built by config.init from the options.

\* "echo" is registered twice, with CallFn and with StartFn.
callHandlers == {"printf", "echo"}
startHandlers == {"count", "echo"}
\* jrpc: "echo" is registered twice as well, with Fn and with Proc.
procHandlers == {"log", "echo"}

\* The lookup with one table for both kinds.
mrpcHandleRequestOneTable(req) ==
    CASE req.kind = "call" ->
            IF req.fn \in callHandlers \cup startHandlers THEN "call" ELSE "nofunction"
      [] req.kind = "start" ->
            IF req.fn \in callHandlers \cup startHandlers THEN "start" ELSE "nofunction"
      [] OTHER -> "nomethod"

\* The lookup that tries the CallFn table first, whatever the Method.
mrpcHandleRequestCallFirst(req) ==
    CASE req.kind \in {"call", "start"} ->
            IF req.fn \in callHandlers THEN "call"
            ELSE IF req.fn \in startHandlers THEN "start"
            ELSE "nofunction"
      [] OTHER -> "nomethod"

\* mrpc config.handleRequest: the table chosen by the request's Method, then
\* the lookup of Function in it.
mrpcHandleRequest(req) ==
    CASE req.kind = "call" ->
            IF req.fn \in callHandlers THEN "call" ELSE "nofunction"
      [] req.kind = "start" ->
            IF req.fn \in startHandlers THEN "start" ELSE "nofunction"
      [] OTHER -> "nomethod"

\* The lookup that tries the Fn table first, whatever the id.
jrpcHandleRequestCallFirst(req) ==
    IF req.fn \in callHandlers THEN "call"
    ELSE IF req.fn \in procHandlers THEN "proc"
    ELSE "nofunction"

\* jrpc config.handleRequest: procHandlers for a request without an id,
\* callHandlers otherwise, then the lookup of Method in it.
jrpcHandleRequest(req) ==
    IF req.id = 0
    THEN IF req.fn \in procHandlers THEN "proc" ELSE "nofunction"
    ELSE IF req.fn \in callHandlers THEN "call" ELSE "nofunction"

handleRequest(p, req) ==
    IF p = "mrpc" THEN mrpcHandleRequest(req) ELSE jrpcHandleRequest(req)

\* protocol.Request of either package. mrpc: ID, Method (kind), Function,
\* Input; jrpc: ID (0 is the absent id of a notification), Method (kept in
\* fn), Params (kept in input). input says whether the payload decodes into
\* the handler's input type; it is read only when a handler is found, and
\* the Function only when the Method is known. An mrpc request that finds a
\* handler names "echo", the function registered in both tables: "printf"
\* and "count" are asked for in the table that lacks them, as are "printf"
\* and "log" of jrpc.
Requests(p, n) ==
    LET all == IF p = "mrpc"
               THEN [id : {n}, kind : {"call", "start", "stop"},
                     fn : {"printf", "count", "echo", "nope"},
                     input : {"ok", "bad"}]
               ELSE [id : {0, n}, kind : {"-"},
                     fn : {"printf", "log", "echo", "nope"},
                     input : {"ok", "bad"}]
    IN  {r \in all :
            /\ handleRequest(p, r) \in {"nomethod", "nofunction"} => r.input = "ok"
            /\ handleRequest(p, r) = "nomethod" => r.fn = "printf"
            /\ r.fn = "printf" => r.kind # "call" /\ (p = "jrpc" => r.id = 0)
            /\ r.fn = "count" => r.kind # "start"
            /\ r.fn = "log" => r.id # 0}

----------------------------------------------------------------------------
\* Scope.

\* For: a fresh Scope for one request, bound to the connection's send.
\* calls is the record of the Scope calls made on it: the method called, the
\* code and message of a Fail, who called (the user function or the
\* framework) and what the call returned ("pending" while c.Write has not
\* returned). ret is what the user function returned.
For(req) ==
    [req |-> req, send |-> TRUE, pc |-> "start", then |-> "start",
     calls |-> <<>>, ret |-> "none"]

\* The Scope methods a user function can call.
ScopeOps(p) ==
    IF p = "mrpc" THEN {"yield", "succ", "end", "fail"}
    ELSE {"succ", "fail"}

\* Fail alone clearing the send function.
ClearsSendFailOnly(op) == op = "fail"

\* No method clearing the send function.
ClearsSendNever(op) == FALSE

\* Fail and End set ctx.send = nil once Respond has returned; Succ and Yield
\* leave it.
ClearsSend(op) == op \in {"end", "fail"}

\* A send that is not waited for.
Detached(then) == then

\* Respond returns only when send (c.Write) has returned: the handler is
\* blocked meanwhile.
Blocked(then) == "writing"

\* Scope.Respond, called as method op with a Fail's code and message and an
\* output that encodes ("ok") or not ("bad"): the Scope after the call.
Respond(sc, op, code, msg, out, by, then) ==
    LET outcome == IF ~sc.send THEN "notsupported"
                   ELSE IF out = "bad" THEN "encode"
                   ELSE "pending"
    IN  [sc EXCEPT
            !.calls = Append(@, [op |-> op, code |-> code, msg |-> msg,
                                 by |-> by, ret |-> outcome]),
            !.then = then,
            !.pc = IF outcome = "pending" THEN Blocked(then) ELSE then,
            !.send = IF outcome # "pending" /\ ClearsSend(op) THEN FALSE ELSE @]

\* Responses that take the id of the request read last.
SendsLatestId(s, sc, op, code, msg, out) ==
    IF sc.send /\ out # "bad"
    THEN {[rq |-> s, n |-> Len(sc.calls) + 1,
           id |-> IF s \in DOMAIN scopes THEN scopes[Len(scopes)].req.id
                  ELSE sc.req.id,
           method |-> op, code |-> code, msg |-> msg]}
    ELSE {}

\* The frames Respond hands to send: the encoded protocol.Response, with the
\* Scope's request id. rq and n name the Scope and the call it comes from.
Sends(s, sc, op, code, msg, out) ==
    IF sc.send /\ out # "bad"
    THEN {[rq |-> s, n |-> Len(sc.calls) + 1, id |-> sc.req.id,
           method |-> op, code |-> code, msg |-> msg]}
    ELSE {}

\* One Scope call by the handler of scope s, whose Scope is sc before it.
Call(s, sc, op, code, msg, out, by, then) ==
    /\ scopes' = [scopes EXCEPT ![s] = Respond(sc, op, code, msg, out, by, then)]
    /\ outbox' = outbox \cup Sends(s, sc, op, code, msg, out)
    /\ UNCHANGED <<setup, ordering, codec, routes, framing, rigging, watching, process, proto, loop, result, conn, ctxDone, writing, wire>>

----------------------------------------------------------------------------
\* The handler goroutine of one request.

\* A wrapper that ignores the decoding error.
decodesAnything(req) == TRUE

\* in.UnmarshalMsg(ctx.Input), json.Unmarshal(ctx.Params, in): the payload
\* decodes into the handler's input type.
decodes(req) == req.input = "ok"

\* The handler goroutine until the user function is entered:
\* handle(For(ctx, req, send)). handleRequest fails an unknown method or
\* function with 404; the CallFn, StartFn, Fn or Proc wrapper decodes the
\* input, fails with 406 when it does not decode, and otherwise calls the
\* user function. It reads and writes nothing but its own Scope, and is
\* taken in one step with the go statement that starts it.
Begin(s, sc) ==
    LET route == handleRequest(proto, sc.req)
        fail(code, msg) ==
            /\ scopes' = Append(scopes, Respond(sc, "fail", code, msg, "ok", "framework", "done"))
            /\ outbox' = outbox \cup Sends(s, sc, "fail", code, msg, "ok")
    IN  CASE route = "nomethod" -> fail(404, <<"method not found">>)
          [] route = "nofunction" -> fail(404, <<"function", sc.req.fn, "not found">>)
          [] OTHER ->
                IF ~decodes(sc.req)
                THEN fail(406, <<"while decoding input">>)
                ELSE /\ scopes' = Append(scopes, [sc EXCEPT !.pc = "user"])
                     /\ outbox' = outbox

\* The serving process is alive: every goroutine stops when one panics.
Running == process = "running"

\* The user function calls a method of its Scope.
UserCall(s, op) ==
    /\ Running
    /\ scopes[s].pc = "user"
    /\ ops < MaxOps
    /\ ops' = ops + 1
    /\ Call(s, scopes[s], op, IF op = "fail" THEN 403 ELSE 0,
            IF op = "fail" THEN <<"forbidden">> ELSE <<>>, "ok", "user", "user")

\* The out-of-band sends of a jrpc Scope.
OutOfBand(p) == IF p = "jrpc" THEN {"notify", "call"} ELSE {}

\* Scope.Notify and Scope.Call, with parameters that encode: the message is
\* marshalled and ctx.send(js) is called, with no look at ctx.send before.
\* Calling the nil func that Fail left in ctx.send panics.
NotifyOrCall(sc, op) ==
    [sc EXCEPT
        !.calls = Append(@, [op |-> op, code |-> 0, msg |-> <<>>, by |-> "user",
                             ret |-> IF sc.send THEN "pending" ELSE "panic"]),
        !.then = "user",
        !.pc = IF sc.send THEN Blocked("user") ELSE "panic"]

\* The user function calls Notify or Call on its Scope. A panic is not
\* recovered in the handler's goroutine: it ends the process.
UserSend(s, op) ==
    /\ Running
    /\ scopes[s].pc = "user"
    /\ op \in OutOfBand(proto)
    /\ ops < MaxOps
    /\ ops' = ops + 1
    /\ scopes' = [scopes EXCEPT ![s] = NotifyOrCall(@, op)]
    /\ outbox' = IF scopes[s].send
                 THEN outbox \cup {[rq |-> s, n |-> Len(scopes[s].calls) + 1,
                                    id |-> 0, method |-> op, code |-> 0,
                                    msg |-> <<>>]}
                 ELSE outbox
    /\ process' = IF scopes[s].send THEN process ELSE "panicked"
    /\ UNCHANGED <<setup, ordering, codec, routes, framing, rigging, watching, proto, loop, result, conn, ctxDone, writing, wire>>

\* The user function blocks until its context is cancelled.
UserAwait(s) ==
    /\ Running
    /\ scopes[s].pc = "user"
    /\ scopes' = [scopes EXCEPT ![s].pc = "await"]
    /\ UNCHANGED <<setup, ordering, codec, routes, framing, rigging, watching, process, proto, loop, result, conn, ctxDone, outbox, writing, wire, ops>>

\* StartFn ending every stream with End.
startFinalAlwaysEnd(r) == "end"

\* StartFn, after the user function: Fail(500) on an error, End otherwise.
startFinal(r) == IF r = "err" THEN "fail" ELSE "end"

\* A wrapper that answers Succ whatever the user function returned.
callFinalIgnoresError(r) == "succ"

\* CallFn and Fn, after the user function: Fail(500) on an error, Succ(out)
\* otherwise.
callFinal(r) == IF r = "err" THEN "fail" ELSE "succ"

\* What a user function can return: an error or nil, and for a call an
\* output that encodes or one that does not ("badout").
Returns(route) ==
    CASE route = "call" -> {"nil", "badout", "err"}
      [] route = "start" -> {"nil", "err"}
      [] OTHER -> {"nil"}

\* The user function returns r, and the wrapper sends the terminal response
\* (Proc sends none).
Return(s, r) ==
    LET sc == [scopes[s] EXCEPT !.ret = r]
        route == handleRequest(proto, sc.req)
        op == IF route = "call" THEN callFinal(r) ELSE startFinal(r)
    IN  /\ ops' = ops
        /\ IF route = "proc"
           THEN /\ scopes' = [scopes EXCEPT ![s] = [sc EXCEPT !.pc = "done"]]
                /\ UNCHANGED <<setup, ordering, codec, routes, framing, rigging, watching, process, proto, loop, result, conn, ctxDone, outbox,
                               writing, wire>>
           ELSE Call(s, sc, op, IF op = "fail" THEN 500 ELSE 0,
                     IF op = "fail" THEN <<"error">> ELSE <<>>,
                     IF r = "badout" THEN "bad" ELSE "ok", "framework", "done")

UserReturn(s, r) ==
    /\ Running
    /\ scopes[s].pc = "user"
    /\ r \in Returns(handleRequest(proto, scopes[s].req))
    /\ Return(s, r)

\* A user function that waited for its context returns the context's error.
AwaitReturn(s) ==
    /\ Running
    /\ scopes[s].pc = "await"
    /\ ctxDone
    /\ Return(s, IF handleRequest(proto, scopes[s].req) = "proc" THEN "nil" ELSE "err")

----------------------------------------------------------------------------
\* The send closure: c.Write(r.Context(), messageType, bin).

\* c.Write fails once the connection is closed or the context cancelled.
Writable == conn = "open" /\ ~ctxDone

\* Writers that do not exclude each other.
writeUnlocked == TRUE

\* websocket.Conn.Write holds the connection's write lock for the whole
\* message: a writer starts when no other is writing.
writeFree == writing = {}

\* The transport appends what a writer puts on it: a message goes out in
\* two chunks, its head and its tail.
Transmit(w, f, part) == Append(w, [frame |-> f, part |-> part])

\* A Fail or End that keeps the send function when its write failed.
CompleteKeepsOnError(sc, f, r) ==
    [sc EXCEPT !.calls[f.n].ret = r,
               !.send = IF ClearsSend(sc.calls[f.n].op) /\ r = "ok" THEN FALSE ELSE @,
               !.pc = IF @ = "writing" THEN sc.then ELSE @]

\* c.Write has returned r ("ok" or "write", its error) for frame f: Respond
\* returns it, Fail and End clear send, and the handler goes on.
Complete(sc, f, r) ==
    [sc EXCEPT !.calls[f.n].ret = r,
               !.send = IF ClearsSend(sc.calls[f.n].op) THEN FALSE ELSE @,
               !.pc = IF @ = "writing" THEN sc.then ELSE @]

WriteBegin(f) ==
    /\ Running
    /\ f \in outbox
    /\ Writable
    /\ writeFree
    /\ outbox' = outbox \ {f}
    /\ writing' = writing \cup {f}
    /\ wire' = Transmit(wire, f, "head")
    /\ UNCHANGED <<setup, ordering, codec, routes, framing, rigging, watching, process, proto, loop, result, conn, ctxDone, scopes, ops>>

WriteEnd(f) ==
    /\ Running
    /\ f \in writing
    /\ writing' = writing \ {f}
    /\ wire' = IF Writable THEN Transmit(wire, f, "tail") ELSE wire
    /\ scopes' = [scopes EXCEPT ![f.rq] =
                    Complete(@, f, IF Writable THEN "ok" ELSE "write")]
    /\ UNCHANGED <<setup, ordering, codec, routes, framing, rigging, watching, process, proto, loop, result, conn, ctxDone, outbox, ops>>

WriteFail(f) ==
    /\ Running
    /\ f \in outbox
    /\ ~Writable
    /\ outbox' = outbox \ {f}
    /\ scopes' = [scopes EXCEPT ![f.rq] = Complete(@, f, "write")]
    /\ UNCHANGED <<setup, ordering, codec, routes, framing, rigging, watching, process, proto, loop, result, conn, ctxDone, writing, wire, ops>>

----------------------------------------------------------------------------
\* config.serveHTTP: the read loop and its deferred calls.

\* A loop that runs each handler before it reads again.
loopFreeInline == \A s \in DOMAIN scopes : scopes[s].pc = "done"

\* The loop starts the handler with a go statement and reads on.
loopFree == TRUE

\* c.Read returned a message of the package's type that decodes into a
\* Request: group.Add(1) and go handle(For(ctx, req, send)).
Read(req) ==
    /\ Running
    /\ loop = "reading"
    /\ Writable
    /\ loopFree
    /\ Len(scopes) < quota
    /\ Begin(Len(scopes) + 1, For(req))
    /\ UNCHANGED <<setup, ordering, codec, routes, framing, rigging, watching, process, proto, loop, result, conn, ctxDone, writing, wire, ops>>

\* A loop that takes an undecodable message for the end of the stream.
ReadUndecodableNil ==
    /\ Running
    /\ loop = "reading"
    /\ Writable
    /\ loopFree
    /\ loop' = "wait"
    /\ result' = "nil"
    /\ UNCHANGED <<setup, ordering, codec, routes, framing, rigging, watching, process, proto, conn, ctxDone, scopes, outbox, writing, wire, ops>>

\* c.Read returned a message that does not decode into a Request: return err.
ReadUndecodable ==
    /\ Running
    /\ loop = "reading"
    /\ Writable
    /\ loopFree
    /\ loop' = "wait"
    /\ result' = "error"
    /\ UNCHANGED <<setup, ordering, codec, routes, framing, rigging, watching, process, proto, conn, ctxDone, scopes, outbox, writing, wire, ops>>

\* c.Read returned an error: nil is returned when it carries a close status
\* (the peer sent a close frame: websocket.CloseStatus(err) >= 0), the error
\* otherwise (a transport failure, a cancelled context).
ReadError(status) ==
    /\ Running
    /\ loop = "reading"
    /\ ~Writable
    /\ loopFree
    /\ status >= 0 => conn = "closed" /\ ~ctxDone
    /\ loop' = "wait"
    /\ result' = IF status < 0 THEN "error" ELSE "nil"
    /\ conn' = "closed"
    /\ UNCHANGED <<setup, ordering, codec, routes, framing, rigging, watching, process, proto, ctxDone, scopes, outbox, writing, wire, ops>>

\* A serveHTTP that does not wait for its handlers.
groupNoWait == TRUE

\* group.Wait(): every dispatched handler has called group.Done.
groupWait == \A s \in DOMAIN scopes : scopes[s].pc = "done"

\* The deferred calls, last first: group.Wait(), then c.CloseNow(); serveHTTP
\* and ServeHTTP return, and net/http cancels the request's context.
Unwind ==
    /\ Running
    /\ loop = "wait"
    /\ groupWait
    /\ loop' = "returned"
    /\ conn' = "closedNow"
    /\ ctxDone' = TRUE
    /\ UNCHANGED <<setup, ordering, codec, routes, framing, rigging, watching, process, proto, result, scopes, outbox, writing, wire, ops>>

----------------------------------------------------------------------------
\* The environment: the peer and the server's base context.

\* The peer closes the connection, or the transport fails.
PeerClose ==
    /\ Running
    /\ conn = "open"
    /\ conn' = "closed"
    /\ UNCHANGED <<setup, ordering, codec, routes, framing, rigging, watching, process, proto, loop, result, ctxDone, scopes, outbox, writing, wire, ops>>

\* The context given to rig's Serve or Run is cancelled (an interrupt).
ServerCancel ==
    /\ Running
    /\ ~ctxDone
    /\ loop # "returned"
    /\ ctxDone' = TRUE
    /\ conn' = "closed"
    /\ UNCHANGED <<setup, ordering, codec, routes, framing, rigging, watching, process, proto, loop, result, scopes, outbox, writing, wire, ops>>

----------------------------------------------------------------------------
\* A connection that websocket.Accept has just accepted.
Accepted ==
    /\ proto \in {"mrpc", "jrpc"}
    /\ loop = "reading"
    /\ result = "pending"
    /\ conn = "open"
    /\ ctxDone = FALSE
    /\ scopes = <<>>
    /\ outbox = {}
    /\ writing = {}
    /\ wire = <<>>
    /\ ops = 0
    /\ process = "running"

\* Every function name an option registers.
Functions == callHandlers \cup startHandlers \cup procHandlers

\* The tables of a Handle whose options registered each function once: a
\* function maps to the user function registered for it, or to "nil".
Registered ==
    [call |-> [f \in Functions |-> IF f \in callHandlers THEN f ELSE "nil"],
     start |-> [f \in Functions |-> IF f \in startHandlers THEN f ELSE "nil"],
     proc |-> [f \in Functions |-> IF f \in procHandlers THEN f ELSE "nil"]]

\* Handle has returned the handler of the tables above, without middleware.
Configured ==
    /\ options = <<>>
    /\ handler = <<>>
    /\ stack = <<>>
    /\ log = <<>>
    /\ tables = Registered

\* hook.Order is not running.
NoOrdering ==
    /\ hooks = <<>>
    /\ dependencies = <<>>
    /\ placed = {}
    /\ order = <<>>
    /\ frames = <<>>
    /\ next = 1
    /\ returned = FALSE

\* Nothing is being encoded.
NoCodec ==
    /\ response = <<>>
    /\ bytes = <<>>
    /\ decoded = <<>>

\* The api package is not configured.
NoRoutes ==
    /\ apiOptions = <<>>
    /\ applied = 0
    /\ old = <<>>
    /\ middleware = <<>>
    /\ patternHandlers = <<>>
    /\ passed = <<>>

\* A connection whose peer sends requests only, MaxRequests of them at most.
RequestsOnly ==
    /\ skipped = <<>>
    /\ quota = MaxRequests

\* No rig.Config is made.
NoRigging ==
    /\ serve = FALSE
    /\ serving = FALSE
    /\ cfgHooks = <<>>
    /\ callers = <<>>
    /\ servers = 0

\* No watcher is started.
NoWatching ==
    /\ processing = "returned"
    /\ doneCh = FALSE
    /\ shutdowns = <<>>
    /\ events = 0
    /\ listening = FALSE
    /\ alerts = 0

\* No Config is made and no watcher is started.
Idle ==
    /\ NoRigging
    /\ NoWatching

\* The connection of a Handle without middleware.
Init ==
    /\ Accepted
    /\ RequestsOnly
    /\ Idle
    /\ Configured
    /\ NoOrdering
    /\ NoCodec
    /\ NoRoutes

Next ==
    \/ \E req \in Requests(proto, Len(scopes) + 1) : Read(req)
    \/ ReadUndecodable
    \/ \E status \in {-1, 1000} : ReadError(status)
    \/ Unwind
    \/ \E s \in DOMAIN scopes, op \in ScopeOps(proto) : UserCall(s, op)
    \/ \E s \in DOMAIN scopes, op \in OutOfBand(proto) : UserSend(s, op)
    \/ \E s \in DOMAIN scopes : UserAwait(s)
    \/ \E s \in DOMAIN scopes, r \in {"nil", "badout", "err"} : UserReturn(s, r)
    \/ \E s \in DOMAIN scopes : AwaitReturn(s)
    \/ \E f \in outbox : WriteBegin(f)
    \/ \E f \in writing : WriteEnd(f)
    \/ \E f \in outbox : WriteFail(f)
    \/ PeerClose
    \/ ServerCancel

Spec == Init /\ [][Next]_vars

----------------------------------------------------------------------------
\* The same connection with a peer that also sends frames of the other
\* type: text frames to mrpc, binary frames to jrpc.

\* A loop that returns an error on a frame of the other type.
ReadOtherEnds ==
    /\ Running
    /\ loop = "reading"
    /\ Writable
    /\ loopFree
    /\ Len(skipped) < MaxSkipped
    /\ skipped' = Append(skipped, Len(scopes))
    /\ loop' = "wait"
    /\ result' = "error"
    /\ UNCHANGED <<setup, ordering, codec, routes, rigging, watching, quota, process, proto, conn, ctxDone, scopes, outbox, writing, wire, ops>>

\* c.Read returned a message whose type is not the package's
\* (websocket.MessageBinary for mrpc, websocket.MessageText for jrpc):
\* continue.
ReadOther ==
    /\ Running
    /\ loop = "reading"
    /\ Writable
    /\ loopFree
    /\ Len(skipped) < MaxSkipped
    /\ skipped' = Append(skipped, Len(scopes))
    /\ UNCHANGED <<setup, ordering, codec, routes, rigging, watching, quota, connection>>

\* The connection of a peer that sends MaxFramedRequests requests among its
\* frames of the other type.
InitFrames ==
    /\ Accepted
    /\ skipped = <<>>
    /\ quota = MaxFramedRequests
    /\ Idle
    /\ Configured
    /\ NoOrdering
    /\ NoCodec
    /\ NoRoutes

NextFrames ==
    \/ Next
    \/ ReadOther

SpecFrames == InitFrames /\ [][NextFrames]_vars

----------------------------------------------------------------------------
\* Handle(options...), and one request going through the handler it built.
\* A middleware here passes the request on: it is entered, calls the Handler
\* it was given, and is left when that returns.

\* The middleware functions given to Use.
Middleware == {"auth", "logging", "recover"}

\* The user functions given to CallFn, StartFn, Fn and Proc.
UserFns == {"f", "g"}

\* The function names the options below register.
Names == {"echo", "printf"}

\* The tables of a package: mrpc has callHandlers and startHandlers, jrpc
\* callHandlers and procHandlers.
TablesOf(p) == IF p = "mrpc" THEN {"call", "start"} ELSE {"call", "proc"}

\* The options of a package: Use(fn), and a registration of user function fn
\* under a name in one table (CallFn or Fn in "call", StartFn in "start",
\* Proc in "proc").
Options(p) ==
    [opt : {"use"}, table : {"-"}, name : {"-"}, fn : Middleware]
        \cup [opt : {"register"}, table : TablesOf(p), name : Names, fn : UserFns]

\* The option lists of at most MaxUse options.
OptionLists(p) == UNION {[1..n -> Options(p)] : n \in 0..MaxUse}

\* Use(fn), applied to the configuration: cfg.handler = fn(cfg.handler).
\* fn's Handler runs fn's code around the handler cfg had before.
Use(fn, h) == <<fn>> \o h

\* A registration that leaves a name that is already in the table.
RegisterOnce(tb, o) ==
    IF tb[o.table][o.name] = "nil"
    THEN [tb EXCEPT ![o.table][o.name] = o.fn]
    ELSE tb

\* CallFn, StartFn, Fn, Proc, applied to the configuration:
\* cfg.callHandlers[function] = ..., a write to a Go map.
Register(tb, o) == [tb EXCEPT ![o.table][o.name] = o.fn]

\* The tables cfg.init makes: empty maps.
NoTables == [tb \in {"call", "start", "proc"} |-> [f \in Functions |-> "nil"]]

\* Whether the request has reached config.handleRequest.
Dispatched == \E i \in DOMAIN log : log[i].ev = "dispatch"

\* cfg.init: cfg.handler = cfg.handleRequest, then the options in order.
InitUse ==
    /\ Accepted
    /\ RequestsOnly
    /\ Idle
    /\ options \in OptionLists(proto)
    /\ handler = <<>>
    /\ stack = <<>>
    /\ log = <<>>
    /\ tables = NoTables
    /\ NoOrdering
    /\ NoCodec
    /\ NoRoutes

\* The loop of cfg.init applies the next option.
ApplyOption ==
    LET o == Head(options)
    IN  /\ options # <<>>
        /\ handler' = IF o.opt = "use" THEN Use(o.fn, handler) ELSE handler
        /\ tables' = IF o.opt = "register" THEN Register(tables, o) ELSE tables
        /\ options' = Tail(options)
        /\ log' = Append(log, [ev |-> o.opt, fn |-> o.fn, key |-> <<o.table, o.name>>])
        /\ UNCHANGED <<connection, framing, rigging, watching, ordering, codec, routes, stack>>

\* handle(For(ctx, req, send)), handle being cfg.handler: the request enters
\* the next Handler of the chain, a middleware.
Enter ==
    /\ options = <<>>
    /\ ~Dispatched
    /\ Len(stack) < Len(handler)
    /\ stack' = <<handler[Len(stack) + 1]>> \o stack
    /\ log' = Append(log, [ev |-> "enter", fn |-> handler[Len(stack) + 1],
                           key |-> <<>>])
    /\ UNCHANGED <<connection, framing, rigging, watching, ordering, codec, routes, tables, options, handler>>

\* A dispatch that enters the name it did not find into the table.
DispatchRegistering(tb, name) ==
    /\ options = <<>>
    /\ ~Dispatched
    /\ Len(stack) = Len(handler)
    /\ tb \in TablesOf(proto)
    /\ log' = Append(log, [ev |-> "dispatch", fn |-> tables[tb][name],
                           key |-> <<tb, name>>])
    /\ tables' = IF tables[tb][name] = "nil"
                 THEN [tables EXCEPT ![tb][name] = "notfound"]
                 ELSE tables
    /\ UNCHANGED <<connection, framing, rigging, watching, ordering, codec, routes, options, handler, stack>>

\* The innermost Handler is cfg.handleRequest, the default dispatch: the
\* request selects table tb and its function name is looked up there; "nil"
\* is the missing handler that is answered with the 404.
Dispatch(tb, name) ==
    /\ options = <<>>
    /\ ~Dispatched
    /\ Len(stack) = Len(handler)
    /\ tb \in TablesOf(proto)
    /\ log' = Append(log, [ev |-> "dispatch", fn |-> tables[tb][name],
                           key |-> <<tb, name>>])
    /\ UNCHANGED <<connection, framing, rigging, watching, ordering, codec, routes, tables, options, handler, stack>>

\* A Handler returns to the middleware that called it.
Leave ==
    /\ Dispatched
    /\ stack # <<>>
    /\ stack' = Tail(stack)
    /\ log' = Append(log, [ev |-> "leave", fn |-> Head(stack), key |-> <<>>])
    /\ UNCHANGED <<connection, framing, rigging, watching, ordering, codec, routes, tables, options, handler>>

NextUse ==
    \/ ApplyOption
    \/ Enter
    \/ \E tb \in {"call", "start", "proc"}, name \in Names : Dispatch(tb, name)
    \/ Leave

SpecUse == InitUse /\ [][NextUse]_vars

----------------------------------------------------------------------------
\* hook.Order(hooks...). A hook is known here by what its Provides() and
\* DependsOn() return; a hook that is no Provider, or no Dependent, is one
\* that returns no names. The result lists the hooks by their index in the
\* input, which tells equal hooks apart.

\* The names hooks provide and depend on.
Capabilities == {"db", "log"}

\* The name lists Provides() and DependsOn() return.
NameLists == {<<>>, <<"db">>, <<"log">>, <<"db", "log">>, <<"log", "db">>}

\* The hook lists of at most MaxHooks hooks.
HookLists ==
    UNION {[1..n -> [provides : NameLists, depends : NameLists]] : n \in 0..MaxHooks}

\* The elements of a sequence.
Range(s) == {s[i] : i \in DOMAIN s}

\* A collection that files a hook under the names it depends on.
DependenciesByDependent(hs) ==
    [name \in Capabilities |->
        SelectSeq([i \in 1..Len(hs) |-> i], LAMBDA i : name \in Range(hs[i].depends))]

\* The first loop of Order: dependencies[name] lists, in input order, the
\* indices of the hooks that provide name.
Dependencies(hs) ==
    [name \in Capabilities |->
        SelectSeq([i \in 1..Len(hs) |-> i], LAMBDA i : name \in Range(hs[i].provides))]

\* sort.Ints: s in ascending order, duplicates kept.
RECURSIVE SortInts(_)
SortInts(s) ==
    IF s = <<>> THEN <<>>
    ELSE LET m == CHOOSE i \in DOMAIN s : \A j \in DOMAIN s : s[i] <= s[j]
         IN  <<s[m]>> \o SortInts([k \in 1..(Len(s) - 1) |-> IF k < m THEN s[k] ELSE s[k + 1]])

\* items = append(items, dependencies[name]...) for each name of names.
RECURSIVE Gather(_)
Gather(names) ==
    IF names = <<>> THEN <<>>
    ELSE dependencies[Head(names)] \o Gather(Tail(names))

\* A place that takes a hook for one that depends on nothing.
ItemsNone(i) == <<>>

\* The items place(i) visits: the providers of every name hooks[i] depends
\* on, sorted by index.
Items(i) == SortInts(Gather(hooks[i].depends))

\* A place without the placed[i] test.
placeAgain(i, rest) ==
    /\ placed' = placed \cup {i}
    /\ frames' = <<[i |-> i, items |-> Items(i)]>> \o rest

\* A call of place(i) with the callers rest on the stack: it returns at once
\* when hooks[i] is placed, and otherwise marks it placed and starts on its
\* items.
place(i, rest) ==
    IF i \in placed
    THEN /\ placed' = placed
         /\ frames' = rest
    ELSE /\ placed' = placed \cup {i}
         /\ frames' = <<[i |-> i, items |-> Items(i)]>> \o rest

\* Order is called: the maps and slices are made and nothing has run.
InitOrder ==
    /\ Accepted
    /\ RequestsOnly
    /\ Idle
    /\ proto = "mrpc"
    /\ Configured
    /\ NoCodec
    /\ NoRoutes
    /\ hooks \in HookLists
    /\ dependencies = [name \in Capabilities |-> <<>>]
    /\ placed = {}
    /\ order = <<>>
    /\ frames = <<>>
    /\ next = 0
    /\ returned = FALSE

\* The first loop fills dependencies.
Collect ==
    /\ next = 0
    /\ dependencies' = Dependencies(hooks)
    /\ next' = 1
    /\ UNCHANGED <<connection, framing, rigging, watching, setup, codec, routes, hooks, placed, order, frames, returned>>

\* A last loop that places the hooks that depend on something, and leaves
\* the others to be placed as their dependencies.
PlaceNextDependents ==
    /\ next \in 1..Len(hooks)
    /\ frames = <<>>
    /\ IF hooks[next].depends = <<>>
       THEN UNCHANGED <<placed, frames>>
       ELSE place(next, <<>>)
    /\ next' = next + 1
    /\ UNCHANGED <<connection, framing, rigging, watching, setup, codec, routes, hooks, dependencies, order, returned>>

\* for i := range hooks { place(i) }: the next call of place from the loop.
PlaceNext ==
    /\ next \in 1..Len(hooks)
    /\ frames = <<>>
    /\ place(next, <<>>)
    /\ next' = next + 1
    /\ UNCHANGED <<connection, framing, rigging, watching, setup, codec, routes, hooks, dependencies, order, returned>>

\* for _, j := range items { place(j) }: the place on top of the stack calls
\* place for its next item.
PlaceItem ==
    /\ frames # <<>>
    /\ Head(frames).items # <<>>
    /\ place(Head(Head(frames).items),
             <<[Head(frames) EXCEPT !.items = Tail(@)]>> \o Tail(frames))
    /\ UNCHANGED <<connection, framing, rigging, watching, setup, codec, routes, hooks, dependencies, order, next, returned>>

\* order = append(order, hooks[i]), and place returns.
PlaceAppend ==
    /\ frames # <<>>
    /\ Head(frames).items = <<>>
    /\ order' = Append(order, Head(frames).i)
    /\ frames' = Tail(frames)
    /\ UNCHANGED <<connection, framing, rigging, watching, setup, codec, routes, hooks, dependencies, placed, next, returned>>

\* return order.
ReturnOrder ==
    /\ next = Len(hooks) + 1
    /\ frames = <<>>
    /\ ~returned
    /\ returned' = TRUE
    /\ UNCHANGED <<connection, framing, rigging, watching, setup, codec, routes, hooks, dependencies, placed, order, frames, next>>

NextOrder ==
    \/ Collect
    \/ PlaceNext
    \/ PlaceItem
    \/ PlaceAppend
    \/ ReturnOrder

SpecOrder == InitOrder /\ [][NextOrder]_vars

----------------------------------------------------------------------------
\* The encodings of a Response. A Go value to encode, and a value decoded,
\* is a tree: nil, a string, an integer, a boolean, an array of values, or a
\* map (a struct or a map: its items are key, value, key, value, ...). The
\* encoded bytes are the sequence of the objects the encoder appends, each a
\* token [t, s, n].

Value(k, s, n, items) == [k |-> k, s |-> s, n |-> n, items |-> items]
NilValue == Value("nil", "", 0, <<>>)
Str(s) == Value("str", s, 0, <<>>)
Integer(n) == Value("int", "", n, <<>>)
Bool(b) == Value("bool", "", IF b THEN 1 ELSE 0, <<>>)
Array(items) == Value("array", "", 0, items)
Map(items) == Value("map", "", 0, items)

\* What a decoder gives for bytes it cannot decode.
Undecodable == Value("undecodable", "", 0, <<>>)

Token(tk, s, n) == [t |-> tk, s |-> s, n |-> n]

\* protocol.Fail is encoded as a tuple (msgp:tuple): the array of Code, Msg.
Fail(code, msg) == Array(<<Integer(code), Str(msg)>>)

\* The outputs given to Respond: none (End), the Fail of a failure, and what
\* user functions return, such as the printf example's Response{String}.
Outputs ==
    {NilValue, Fail(404, "not found"), Fail(0, ""), Str("x"), Integer(7),
     Map(<<Str("str"), Str("x")>>), Array(<<>>)}

\* The ids of requests: the jrpc notification's empty id among them.
Ids == {"", "7"}

\* The mrpc responses Scope.Respond builds.
mrpcResponses == [ID : Ids, Method : {"succ", "fail", "yield", "end"}, Output : Outputs]

\* A nil *protocol.Error, and the Errors of a jrpc failure.
NoError == [nil |-> TRUE, Code |-> 0, Message |-> ""]
Errors == [nil : {FALSE}, Code : {0, 404}, Message : {"", "not found"}]

\* The jrpc responses: the struct has ID, Result, Error and End.
jrpcResponses ==
    [ID : Ids, Result : {NilValue, Str("x"), Integer(7), Map(<<Str("str"), Str("x")>>)},
     Error : {NoError} \cup Errors, End : BOOLEAN]

\* msgp.AppendArrayHeader, AppendMapHeader, AppendString, AppendInt, AppendNil.
AppendArrayHeader(b, n) == Append(b, Token("array", "", n))
AppendMapHeader(b, n) == Append(b, Token("map", "", n))
AppendString(b, s) == Append(b, Token("str", s, 0))
AppendInt(b, n) == Append(b, Token("int", "", n))
AppendNil(b) == Append(b, Token("nil", "", 0))

\* Output.MarshalMsg(b), the generated encoder of the output's type: the
\* value's object appended to b, an array or a map with its items after its
\* header.
RECURSIVE OutputMarshalMsg(_, _)
RECURSIVE AppendItems(_, _)
AppendItems(b, items) ==
    IF items = <<>> THEN b
    ELSE AppendItems(OutputMarshalMsg(Head(items), b), Tail(items))

OutputMarshalMsg(v, b) ==
    CASE v.k = "nil" -> AppendNil(b)
      [] v.k = "str" -> AppendString(b, v.s)
      [] v.k = "int" -> AppendInt(b, v.n)
      [] v.k = "array" -> AppendItems(AppendArrayHeader(b, Len(v.items)), v.items)
      [] v.k = "map" -> AppendItems(AppendMapHeader(b, Len(v.items) \div 2), v.items)

\* A MarshalMsg that appends nothing for a nil Output.
MarshalMsgNoOutput(rs, b) ==
    LET head == AppendString(AppendString(AppendArrayHeader(b, 3), rs.ID), rs.Method)
    IN  IF rs.Output = NilValue THEN head ELSE OutputMarshalMsg(rs.Output, head)

\* Response.MarshalMsg(b): the array header 3, ID, Method, and nil or the
\* output's own encoding.
MarshalMsg(rs, b) ==
    LET head == AppendString(AppendString(AppendArrayHeader(b, 3), rs.ID), rs.Method)
    IN  IF rs.Output = NilValue THEN AppendNil(head) ELSE OutputMarshalMsg(rs.Output, head)

\* MessagePack.decode reads one object at position i of b: the value, and
\* the position after it (0 when the bytes end early).
RECURSIVE ReadValue(_, _)
RECURSIVE ReadItems(_, _, _)
ReadItems(b, i, n) ==
    IF n = 0 THEN [items |-> <<>>, next |-> i]
    ELSE LET h == ReadValue(b, i)
         IN  IF h.next = 0 THEN [items |-> <<>>, next |-> 0]
             ELSE LET r == ReadItems(b, h.next, n - 1)
                  IN  IF r.next = 0 THEN [items |-> <<>>, next |-> 0]
                      ELSE [items |-> <<h.v>> \o r.items, next |-> r.next]

ReadValue(b, i) ==
    IF i > Len(b) THEN [v |-> Undecodable, next |-> 0]
    ELSE CASE b[i].t = "nil" -> [v |-> NilValue, next |-> i + 1]
           [] b[i].t = "str" -> [v |-> Str(b[i].s), next |-> i + 1]
           [] b[i].t = "int" -> [v |-> Integer(b[i].n), next |-> i + 1]
           [] b[i].t = "array" ->
                LET r == ReadItems(b, i + 1, b[i].n)
                IN  [v |-> Array(r.items), next |-> r.next]
           [] b[i].t = "map" ->
                LET r == ReadItems(b, i + 1, 2 * b[i].n)
                IN  [v |-> Map(r.items), next |-> r.next]
           [] OTHER -> [v |-> Undecodable, next |-> 0]

\* The client's onmessage: const [id, method, output] = MessagePack.decode(data),
\* which throws unless data is exactly one object.
MessagePackDecode(b) ==
    LET r == ReadValue(b, 1)
    IN  IF r.next # Len(b) + 1 \/ r.v.k # "array" \/ Len(r.v.items) < 3
        THEN [ID |-> "", Method |-> "undecodable", Output |-> Undecodable]
        ELSE [ID |-> r.v.items[1].s, Method |-> r.v.items[2].s, Output |-> r.v.items[3]]

\* json.Marshal of a value: its JSON text, token by token.
RECURSIVE jsonValue(_)
RECURSIVE jsonElements(_)
RECURSIVE jsonMembers(_)
jsonElements(items) ==
    IF items = <<>> THEN <<>>
    ELSE jsonValue(Head(items)) \o jsonElements(Tail(items))

jsonMembers(items) ==
    IF items = <<>> THEN <<>>
    ELSE <<Token("key", items[1].s, 0)>> \o jsonValue(items[2])
            \o jsonMembers(Tail(Tail(items)))

jsonValue(v) ==
    CASE v.k = "nil" -> <<Token("null", "", 0)>>
      [] v.k = "str" -> <<Token("str", v.s, 0)>>
      [] v.k = "int" -> <<Token("num", "", v.n)>>
      [] v.k = "bool" -> <<Token(IF v.n = 1 THEN "true" ELSE "false", "", 0)>>
      [] v.k = "array" -> <<Token("[", "", 0)>> \o jsonElements(v.items) \o <<Token("]", "", 0)>>
      [] v.k = "map" -> <<Token("{", "", 0)>> \o jsonMembers(v.items) \o <<Token("}", "", 0)>>

\* The value json.Marshal encodes for the Error field: null for a nil
\* pointer, else the object of code and message (data is nil and omitted).
errorValue(e) ==
    IF e.nil THEN NilValue
    ELSE Map(<<Str("code"), Integer(e.Code), Str("message"), Str(e.Message)>>)

\* json.Marshal(&ret) of a jrpc Response: the object of id, result, error
\* and end, none of them omitted.
jsonMarshal(ret) ==
    jsonValue(Map(<<Str("id"), Str(ret.ID),
                    Str("result"), ret.Result,
                    Str("error"), errorValue(ret.Error),
                    Str("end"), Bool(ret.End)>>))

\* A JSON decoder reads one value at position i of b.
RECURSIVE jsonRead(_, _)
RECURSIVE jsonReadElements(_, _)
RECURSIVE jsonReadMembers(_, _)
jsonReadElements(b, i) ==
    IF i > Len(b) THEN [items |-> <<>>, next |-> 0]
    ELSE IF b[i].t = "]" THEN [items |-> <<>>, next |-> i + 1]
    ELSE LET h == jsonRead(b, i)
         IN  IF h.next = 0 THEN [items |-> <<>>, next |-> 0]
             ELSE LET r == jsonReadElements(b, h.next)
                  IN  IF r.next = 0 THEN [items |-> <<>>, next |-> 0]
                      ELSE [items |-> <<h.v>> \o r.items, next |-> r.next]

jsonReadMembers(b, i) ==
    IF i > Len(b) THEN [items |-> <<>>, next |-> 0]
    ELSE IF b[i].t = "}" THEN [items |-> <<>>, next |-> i + 1]
    ELSE IF b[i].t # "key" THEN [items |-> <<>>, next |-> 0]
    ELSE LET h == jsonRead(b, i + 1)
         IN  IF h.next = 0 THEN [items |-> <<>>, next |-> 0]
             ELSE LET r == jsonReadMembers(b, h.next)
                  IN  IF r.next = 0 THEN [items |-> <<>>, next |-> 0]
                      ELSE [items |-> <<Str(b[i].s), h.v>> \o r.items, next |-> r.next]

jsonRead(b, i) ==
    IF i > Len(b) THEN [v |-> Undecodable, next |-> 0]
    ELSE CASE b[i].t = "null" -> [v |-> NilValue, next |-> i + 1]
           [] b[i].t = "str" -> [v |-> Str(b[i].s), next |-> i + 1]
           [] b[i].t = "num" -> [v |-> Integer(b[i].n), next |-> i + 1]
           [] b[i].t = "true" -> [v |-> Bool(TRUE), next |-> i + 1]
           [] b[i].t = "false" -> [v |-> Bool(FALSE), next |-> i + 1]
           [] b[i].t = "[" ->
                LET r == jsonReadElements(b, i + 1)
                IN  [v |-> Array(r.items), next |-> r.next]
           [] b[i].t = "{" ->
                LET r == jsonReadMembers(b, i + 1)
                IN  [v |-> Map(r.items), next |-> r.next]
           [] OTHER -> [v |-> Undecodable, next |-> 0]

\* The value of the member key of an object's items, absent when the object
\* has no such member.
Member(items, key, absent) ==
    LET at == {i \in DOMAIN items : i % 2 = 1 /\ items[i] = Str(key)}
    IN  IF at = {} THEN absent ELSE items[(CHOOSE i \in at : \A j \in at : j <= i) + 1]

\* Decoding into a Response by its json tags: id a string, result any value,
\* error null or an object of code and message, end a boolean; a member that
\* is missing leaves the zero value.
jsonUnmarshal(b) ==
    LET r == jsonRead(b, 1)
        m == r.v.items
        e == Member(m, "error", NilValue)
    IN  IF r.next # Len(b) + 1 \/ r.v.k # "map"
        THEN [ID |-> "", Result |-> Undecodable, Error |-> NoError, End |-> FALSE]
        ELSE [ID |-> Member(m, "id", Str("")).s,
              Result |-> Member(m, "result", NilValue),
              Error |-> IF e.k # "map" THEN NoError
                        ELSE [nil |-> FALSE,
                              Code |-> Member(e.items, "code", Integer(0)).n,
                              Message |-> Member(e.items, "message", Str("")).s],
              End |-> Member(m, "end", Bool(FALSE)).n = 1]

\* A response is about to be sent: Respond (mrpc) or respond (jrpc) has
\* built it.
InitCodec ==
    /\ Accepted
    /\ RequestsOnly
    /\ Idle
    /\ Configured
    /\ NoOrdering
    /\ NoRoutes
    /\ response \in (IF proto = "mrpc" THEN mrpcResponses ELSE jrpcResponses)
    /\ bytes = <<>>
    /\ decoded = <<>>

\* msg, err := ret.MarshalMsg(nil), or json.Marshal(&ret).
Encode ==
    /\ bytes = <<>>
    /\ bytes' = IF proto = "mrpc" THEN MarshalMsg(response, <<>>) ELSE jsonMarshal(response)
    /\ UNCHANGED <<connection, framing, rigging, watching, setup, ordering, routes, response, decoded>>

\* The peer decodes the message it received.
Decode ==
    /\ bytes # <<>>
    /\ decoded = <<>>
    /\ decoded' = <<IF proto = "mrpc" THEN MessagePackDecode(bytes) ELSE jsonUnmarshal(bytes)>>
    /\ UNCHANGED <<connection, framing, rigging, watching, setup, ordering, routes, response, bytes>>

NextCodec ==
    \/ Encode
    \/ Decode

SpecCodec == InitCodec /\ [][NextCodec]_vars

----------------------------------------------------------------------------
\* api.Rig(options...). A handler is the sequence of the layers a request
\* passes, outermost first, the handler given to Handle last. A Group is
\* written in the option list as its options between a begin and an end.

\* The middleware given to api.Use.
ApiMiddleware == {"auth", "logging"}

\* The options: Use(fn), Handle(pattern, handler) (HandleFunc is Handle of
\* http.HandlerFunc(fn), and mrpc.API and jrpc.API are api.Handle of the
\* handler they make), FS(filesystem, pattern), whose handler is the file
\* server "fs", and the begin and the end of a Group.
ApiOptions ==
    [opt : {"use"}, pattern : {"-"}, fn : ApiMiddleware]
        \cup {[opt |-> "handle", pattern |-> "/a", fn |-> "a"],
              [opt |-> "handle", pattern |-> "/b", fn |-> "b"],
              [opt |-> "fs", pattern |-> "/s", fn |-> "fs"],
              [opt |-> "begin", pattern |-> "-", fn |-> "-"],
              [opt |-> "end", pattern |-> "-", fn |-> "-"]}

\* How many Groups are open after the first k options of os.
RECURSIVE Depth(_, _)
Depth(os, k) ==
    IF k = 0 THEN 0
    ELSE Depth(os, k - 1)
            + (CASE os[k].opt = "begin" -> 1 [] os[k].opt = "end" -> -1 [] OTHER -> 0)

\* The option lists of at most MaxApiOptions options in which every Group
\* that begins ends and none ends that has not begun.
ApiOptionLists ==
    {os \in UNION {[1..n -> ApiOptions] : n \in 0..MaxApiOptions} :
        /\ Depth(os, Len(os)) = 0
        /\ \A k \in 1..Len(os) : Depth(os, k) >= 0}

\* A wrapping loop that runs from the first middleware to the last.
RECURSIVE WrapAscending(_, _, _)
WrapAscending(mw, i, h) ==
    IF i < 1 THEN h
    ELSE WrapAscending(mw, i - 1, <<mw[Len(mw) + 1 - i]>> \o h)

\* for i := len(cfg.middleware) - 1; i >= 0; i-- { handler =
\* cfg.middleware[i](handler) }, from index i (counted from 1) down.
RECURSIVE Wrap(_, _, _)
Wrap(mw, i, h) ==
    IF i < 1 THEN h
    ELSE Wrap(mw, i - 1, <<mw[i]>> \o h)

\* api.Rig is called with its options: the config is empty.
InitApi ==
    /\ Accepted
    /\ RequestsOnly
    /\ Idle
    /\ proto = "mrpc"
    /\ Configured
    /\ NoOrdering
    /\ NoCodec
    /\ apiOptions \in ApiOptionLists
    /\ applied = 0
    /\ old = <<>>
    /\ middleware = <<>>
    /\ patternHandlers = <<>>
    /\ passed = <<>>

\* cfg.apply, or the loop of a Group, calls the next option: Use appends to
\* cfg.middleware; Handle wraps the handler in the middleware and appends
\* it to cfg.patternHandlers; FS appends its file server as it is; a Group
\* saves cfg.middleware when it begins and puts it back when it ends.
Apply ==
    LET o == apiOptions[applied + 1]
    IN  /\ applied < Len(apiOptions)
        /\ applied' = applied + 1
        /\ middleware' =
                CASE o.opt = "use" -> Append(middleware, o.fn)
                  [] o.opt = "end" -> Head(old)
                  [] OTHER -> middleware
        /\ old' =
                CASE o.opt = "begin" -> <<middleware>> \o old
                  [] o.opt = "end" -> Tail(old)
                  [] OTHER -> old
        /\ patternHandlers' =
                CASE o.opt = "handle" ->
                        Append(patternHandlers,
                               [pattern |-> o.pattern,
                                handler |-> Wrap(middleware, Len(middleware), <<o.fn>>)])
                  [] o.opt = "fs" ->
                        Append(patternHandlers, [pattern |-> o.pattern, handler |-> <<o.fn>>])
                  [] OTHER -> patternHandlers
        /\ UNCHANGED <<connection, framing, rigging, watching, setup, ordering, codec, apiOptions, passed>>

\* RigMux has given the handlers to the mux, and a request comes for the
\* pattern of patternHandlers[k]: it passes the layers of that handler.
\* mux.Handle panics on a pattern registered twice, so the request is for a
\* pattern registered once.
Serve(k) ==
    /\ applied = Len(apiOptions)
    /\ k \in DOMAIN patternHandlers
    /\ passed = <<>>
    /\ \A j \in DOMAIN patternHandlers :
            patternHandlers[j].pattern = patternHandlers[k].pattern => j = k
    /\ passed' = patternHandlers[k].handler
    /\ UNCHANGED <<connection, framing, rigging, watching, setup, ordering, codec, apiOptions, applied, old,
                   middleware, patternHandlers>>

NextApi ==
    \/ Apply
    \/ \E k \in 1..MaxApiOptions : Serve(k)

SpecApi == InitApi /\ [][NextApi]_vars

----------------------------------------------------------------------------
\* rig.Config: Apply and serveListeners, called by goroutines that share one
\* Config. The Config is not made for unsynchronised use, so a call reads
\* and writes the flags of the Config in one step; callers reach a Config
\* that is serving from the goroutines it started or after its Serve
\* returned. A caller's record keeps what it called last, with how many
\* options, where it is and what was returned.

\* hook.Order as a function of its argument: the state of Order after place
\* was called for each of items in turn, from the state st.
RECURSIVE GatherFrom(_, _)
GatherFrom(deps, names) ==
    IF names = <<>> THEN <<>>
    ELSE deps[Head(names)] \o GatherFrom(deps, Tail(names))

ItemsOf(hs, i) == SortInts(GatherFrom(Dependencies(hs), hs[i].depends))

RECURSIVE PlaceAll(_, _, _)
PlaceAll(hs, items, st) ==
    IF items = <<>> THEN st
    ELSE LET i == Head(items)
             inner == PlaceAll(hs, ItemsOf(hs, i),
                               [placed |-> st.placed \cup {i}, order |-> st.order])
         IN  PlaceAll(hs, Tail(items),
                      IF i \in st.placed THEN st
                      ELSE [placed |-> inner.placed, order |-> Append(inner.order, i)])

\* An Order whose last loop runs from the last hook to the first.
OrderIndicesDescending(hs) ==
    PlaceAll(hs, [i \in 1..Len(hs) |-> Len(hs) + 1 - i], [placed |-> {}, order |-> <<>>]).order

\* The indices of the hooks in the order Order returns them.
OrderIndices(hs) ==
    PlaceAll(hs, [i \in 1..Len(hs) |-> i], [placed |-> {}, order |-> <<>>]).order

\* hook.Order(hs...).
Order(hs) == [k \in 1..Len(hs) |-> hs[OrderIndices(hs)[k]]]

\* The hooks given to a Config: a provider of "db", a provider of "log" that
\* depends on "db", and a provider of "db" that depends on "log".
RigHooks ==
    {[provides |-> <<"db">>, depends |-> <<>>],
     [provides |-> <<"log">>, depends |-> <<"db">>],
     [provides |-> <<"db">>, depends |-> <<"log">>]}

\* The options given to Apply: one that calls cfg.Hook(hook), and one that
\* returns an error.
RigOptions ==
    [opt : {"hook"}, hook : RigHooks] \cup {[opt |-> "fail", hook |-> <<>>]}

RigOptionLists == UNION {[1..n -> RigOptions] : n \in 0..MaxRigOptions}

\* for _, option := range options: the hooks added by the options of os up
\* to the first that returns an error.
RECURSIVE Hooked(_)
Hooked(os) ==
    IF os = <<>> \/ Head(os).opt = "fail" THEN <<>>
    ELSE <<Head(os).hook>> \o Hooked(Tail(os))

\* An option of os returns an error.
Fails(os) == \E k \in DOMAIN os : os[k].opt = "fail"

\* A goroutine that is in no call on the Config.
Free(c) == callers[c].pc = "idle"

\* An Apply that refuses only while the rig is serving.
ConfigApplyWhileServing(c, os) ==
    /\ Free(c)
    /\ Len(cfgHooks) + Len(Hooked(os)) <= MaxRigHooks
    /\ callers' = [callers EXCEPT ![c] =
            [op |-> "Apply", options |-> Len(os), pc |-> "returned",
             ret |-> CASE serving -> "cannot apply options while a rig is running"
                       [] Fails(os) -> "option error"
                       [] OTHER -> "nil"]]
    /\ cfgHooks' =
            CASE serving -> cfgHooks
              [] Fails(os) -> cfgHooks \o Hooked(os)
              [] OTHER -> Order(cfgHooks \o Hooked(os))
    /\ UNCHANGED <<connection, framing, watching, setup, ordering, codec, routes, serve, serving, servers>>

\* cfg.Apply(os...) called by goroutine c.
ConfigApply(c, os) ==
    /\ Free(c)
    /\ Len(cfgHooks) + Len(Hooked(os)) <= MaxRigHooks
    /\ callers' = [callers EXCEPT ![c] =
            [op |-> "Apply", options |-> Len(os), pc |-> "returned",
             ret |-> CASE serving -> "cannot apply options while a rig is running"
                       [] serve -> "cannot apply options after a rig has been run"
                       [] Fails(os) -> "option error"
                       [] OTHER -> "nil"]]
    /\ cfgHooks' =
            CASE serving \/ serve -> cfgHooks
              [] Fails(os) -> cfgHooks \o Hooked(os)
              [] OTHER -> Order(cfgHooks \o Hooked(os))
    /\ UNCHANGED <<connection, framing, watching, setup, ordering, codec, routes, serve, serving, servers>>

\* The error serveListeners returns before it serves, or "nil".
Refusal(n) ==
    CASE serving -> "you are already serving this rig"
      [] serve -> "cannot serve a rig more than once"
      [] n = 0 -> "no listeners for service"
      [] OTHER -> "nil"

\* cfg.serveListeners(ctx, server, listeners...) called by goroutine c with
\* n listeners: it returns an error, or sets the flags, starts a
\* server.Serve goroutine for every listener and waits for them in its
\* deferred wg.Wait().
serveListeners(c, n) ==
    /\ Free(c)
    /\ IF Refusal(n) # "nil"
       THEN /\ callers' = [callers EXCEPT ![c] =
                    [op |-> "Serve", options |-> 0, pc |-> "returned", ret |-> Refusal(n)]]
            /\ UNCHANGED <<serve, serving, servers>>
       ELSE /\ callers' = [callers EXCEPT ![c] =
                    [op |-> "Serve", options |-> 0, pc |-> "serving", ret |-> "-"]]
            /\ serve' = TRUE
            /\ serving' = TRUE
            /\ servers' = servers + n
    /\ UNCHANGED <<connection, framing, watching, setup, ordering, codec, routes, cfgHooks>>

\* The servers of c's serveListeners stop: ctx is done and server.Shutdown
\* was called, or every server.Serve returned an error; wg.Wait() returns.
Stop(c) ==
    /\ callers[c].pc = "serving"
    /\ callers' = [callers EXCEPT ![c].pc = "stopping"]
    /\ UNCHANGED <<connection, framing, watching, setup, ordering, codec, routes, serve, serving, cfgHooks, servers>>

\* A serveListeners that clears both flags when it returns.
serveReturnClears(c) ==
    /\ callers[c].pc = "stopping"
    /\ serving' = FALSE
    /\ serve' = FALSE
    /\ callers' = [callers EXCEPT ![c].pc = "returned", ![c].ret = "nil"]
    /\ UNCHANGED <<connection, framing, watching, setup, ordering, codec, routes, cfgHooks, servers>>

\* The deferred cfg.serving = false runs and serveListeners returns nil.
serveReturn(c) ==
    /\ callers[c].pc = "stopping"
    /\ serving' = FALSE
    /\ callers' = [callers EXCEPT ![c].pc = "returned", ![c].ret = "nil"]
    /\ UNCHANGED <<connection, framing, watching, setup, ordering, codec, routes, serve, cfgHooks, servers>>

\* A goroutine in no call.
NoCall == [op |-> "none", options |-> 0, pc |-> "idle", ret |-> "-"]

\* Goroutine c goes on after its call returned.
Forget(c) ==
    /\ callers[c].pc = "returned"
    /\ callers' = [callers EXCEPT ![c] = NoCall]
    /\ UNCHANGED <<connection, framing, watching, setup, ordering, codec, routes, serve, serving, cfgHooks, servers>>

\* cfg := new(Config), and the goroutines that will use it.
InitRig ==
    /\ Accepted
    /\ proto = "mrpc"
    /\ RequestsOnly
    /\ Configured
    /\ NoOrdering
    /\ NoCodec
    /\ NoRoutes
    /\ NoWatching
    /\ serve = FALSE
    /\ serving = FALSE
    /\ cfgHooks = <<>>
    /\ callers = [c \in 1..MaxCallers |-> NoCall]
    /\ servers = 0

NextRig ==
    \/ \E c \in 1..MaxCallers, os \in RigOptionLists : ConfigApply(c, os)
    \/ \E c \in 1..MaxCallers, n \in 0..MaxListeners : serveListeners(c, n)
    \/ \E c \in 1..MaxCallers : Stop(c)
    \/ \E c \in 1..MaxCallers : serveReturn(c)
    \/ \E c \in 1..MaxCallers : Forget(c)

SpecRig == InitRig /\ [][NextRig]_vars

----------------------------------------------------------------------------
\* rig/watcher: the goroutine process started by start, the goroutines that
\* call Shutdown, and one that receives from Alert(). alertCh, shutdownCh
\* and doneCh are unbuffered: a send and a receive on one of them happen
\* together, in one step, when a sender and a receiver are both in a select
\* that offers it.

\* A goroutine is in Shutdown's select, offering to send on shutdownCh.
Sending(c) == c \in DOMAIN shutdowns /\ shutdowns[c] = "select"

\* Goroutine c calls Shutdown and reaches its select.
Shutdown(c) ==
    /\ c \in DOMAIN shutdowns
    /\ shutdowns[c] = "idle"
    /\ shutdowns' = [shutdowns EXCEPT ![c] = "select"]
    /\ UNCHANGED <<connection, framing, rigging, setup, ordering, codec, routes, processing, doneCh, events, listening, alerts>>

\* case <-wr.doneCh of Shutdown: doneCh is closed, Shutdown returns.
ShutdownDone(c) ==
    /\ Sending(c)
    /\ doneCh
    /\ shutdowns' = [shutdowns EXCEPT ![c] = "returned"]
    /\ UNCHANGED <<connection, framing, rigging, setup, ordering, codec, routes, processing, doneCh, events, listening, alerts>>

\* case <-wr.shutdownCh of process meets the send of c's Shutdown, which
\* returns; process goes on to close(wr.doneCh).
processShutdown(c) ==
    /\ processing = "select"
    /\ Sending(c)
    /\ shutdowns' = [shutdowns EXCEPT ![c] = "returned"]
    /\ processing' = "close"
    /\ UNCHANGED <<connection, framing, rigging, setup, ordering, codec, routes, doneCh, events, listening, alerts>>

\* close(wr.doneCh); return.
processClose ==
    /\ processing = "close"
    /\ doneCh' = TRUE
    /\ processing' = "returned"
    /\ UNCHANGED <<connection, framing, rigging, setup, ordering, codec, routes, shutdowns, events, listening, alerts>>

\* case event := <-wr.fsnotify.Events of process, and processNotification
\* up to the select of issueAlert: a write, a removal or a renaming of a file
\* that shouldInclude accepts goes on to that select (alerting), any other
\* event (a new directory, a name excluded, a Create that cannot be
\* stat'ed) returns to the loop.
processNotification(alerting) ==
    /\ processing = "select"
    /\ events < MaxEvents
    /\ events' = events + 1
    /\ processing' = IF alerting THEN "alert" ELSE "select"
    /\ UNCHANGED <<connection, framing, rigging, setup, ordering, codec, routes, doneCh, shutdowns, listening, alerts>>

\* case <-wr.shutdownCh of issueAlert meets the send of c's Shutdown, which
\* returns; issueAlert returns to the loop of process.
issueAlertShutdown(c) ==
    /\ processing = "alert"
    /\ Sending(c)
    /\ shutdowns' = [shutdowns EXCEPT ![c] = "returned"]
    /\ processing' = "select"
    /\ UNCHANGED <<connection, framing, rigging, setup, ordering, codec, routes, doneCh, events, listening, alerts>>

\* case wr.alertCh <- struct{}{} of issueAlert meets the receive of the
\* goroutine waiting on Alert().
issueAlertSend ==
    /\ processing = "alert"
    /\ listening
    /\ listening' = FALSE
    /\ alerts' = alerts + 1
    /\ processing' = "select"
    /\ UNCHANGED <<connection, framing, rigging, setup, ordering, codec, routes, doneCh, shutdowns, events>>

\* default of issueAlert: nobody sends on shutdownCh and nobody receives
\* from alertCh.
issueAlertDefault ==
    /\ processing = "alert"
    /\ ~listening
    /\ \A c \in DOMAIN shutdowns : ~Sending(c)
    /\ processing' = "select"
    /\ UNCHANGED <<connection, framing, rigging, setup, ordering, codec, routes, doneCh, shutdowns, events, listening, alerts>>

\* A goroutine starts to receive from Alert().
Listen ==
    /\ ~listening
    /\ alerts < MaxEvents
    /\ listening' = TRUE
    /\ UNCHANGED <<connection, framing, rigging, setup, ordering, codec, routes, processing, doneCh, shutdowns, events, alerts>>

\* start has made the channels and started process.
InitWatcher ==
    /\ Accepted
    /\ proto = "mrpc"
    /\ RequestsOnly
    /\ Configured
    /\ NoOrdering
    /\ NoCodec
    /\ NoRoutes
    /\ NoRigging
    /\ processing = "select"
    /\ doneCh = FALSE
    /\ shutdowns = [c \in 1..MaxShutdowns |-> "idle"]
    /\ events = 0
    /\ listening = FALSE
    /\ alerts = 0

\* What the goroutine process does next, whichever case its select takes.
processSteps ==
    \/ \E c \in 1..MaxShutdowns : processShutdown(c)
    \/ processClose
    \/ \E c \in 1..MaxShutdowns : issueAlertShutdown(c)
    \/ issueAlertSend
    \/ issueAlertDefault

\* Shutdown called by c returns, by whichever case of its select.
ShutdownReturns(c) ==
    \/ ShutdownDone(c)
    \/ processShutdown(c)
    \/ issueAlertShutdown(c)

NextWatcher ==
    \/ \E c \in 1..MaxShutdowns : Shutdown(c)
    \/ \E c \in 1..MaxShutdowns : ShutdownDone(c)
    \/ \E c \in 1..MaxShutdowns : processShutdown(c)
    \/ processClose
    \/ \E alerting \in BOOLEAN : processNotification(alerting)
    \/ \E c \in 1..MaxShutdowns : issueAlertShutdown(c)
    \/ issueAlertSend
    \/ issueAlertDefault
    \/ Listen

\* The scheduler runs every goroutine that can take a step: process does
\* not stay in a select that has a case ready, or before its close, and a
\* Shutdown whose select has a case ready returns. File events and calls
\* come when they come.
SpecWatcher ==
    /\ InitWatcher
    /\ [][NextWatcher]_vars
    /\ WF_vars(processSteps)
    /\ \A c \in 1..MaxShutdowns : WF_vars(ShutdownReturns(c))

----------------------------------------------------------------------------
\* Vocabulary of the properties.

\* The calls made on the Scope of request s.
Calls(s) == scopes[s].calls

\* A call whose response was handed to the connection's send function.
Handed(c) == c.ret \in {"pending", "ok", "write"}

\* A call of a terminal method.
Terminal(c) == c.op \in {"succ", "fail", "end"}

\* The frames of request s that are queued, being written or on the wire.
FramesOf(s) ==
    {f \in outbox \cup writing : f.rq = s}
        \cup {wire[i].frame : i \in {j \in DOMAIN wire : wire[j].frame.rq = s}}

----------------------------------------------------------------------------
\* A request the loop treats as a call: mrpc kind "call", jrpc with an id.
IsCall(s) ==
    IF proto = "mrpc" THEN scopes[s].req.kind = "call" ELSE scopes[s].req.id # 0

\* The terminal responses of request s handed to send.
TerminalsHanded(s) ==
    {i \in DOMAIN Calls(s) : Terminal(Calls(s)[i]) /\ Handed(Calls(s)[i])}

\* C1: every call request whose handler has returned had exactly one
\* terminal response (a success or a failure) handed to the connection's
\* send function.
C1_ExactlyOneTerminal ==
    \A s \in DOMAIN scopes :
        IsCall(s) /\ scopes[s].pc = "done" => Cardinality(TerminalsHanded(s)) = 1

\* A user function that keeps StartFn's contract: it calls Yield only.
KeepsContract(s) ==
    \A i \in DOMAIN Calls(s) : Calls(s)[i].by = "user" => Calls(s)[i].op = "yield"

\* A request served by a StartFn handler.
IsStart(s) ==
    /\ proto = "mrpc"
    /\ scopes[s].req.kind = "start"
    /\ scopes[s].req.fn \in startHandlers

C3_SuccIsTerminal ==
    \A s \in DOMAIN scopes :
        \A i, j \in DOMAIN Calls(s) :
            i < j /\ Calls(s)[i].op = "succ" /\ Calls(s)[i].ret = "ok"
                => Calls(s)[j].ret = "notsupported"

\* C4: once Fail or End has been called on a Scope, the send function is
\* cleared, and every later Succ, Yield, End or Fail on that Scope returns
\* "response not supported" and writes no frame.
C4_FailEndTerminal ==
    \A s \in DOMAIN scopes :
        \A i \in DOMAIN Calls(s) :
            Calls(s)[i].op \in {"fail", "end"} =>
                /\ Calls(s)[i].ret # "pending" => ~scopes[s].send
                /\ \A j \in DOMAIN Calls(s) :
                        i < j /\ Calls(s)[j].op \in ScopeOps(proto)
                            => /\ Calls(s)[j].ret = "notsupported"
                                 /\ \A f \in FramesOf(s) : f.n # j

\* C4's case: a user function has called End, then Fail, then returned, and
\* both the Fail and the framework's own End were refused.
C4_Witness ==
    \E s \in DOMAIN scopes :
        /\ Len(Calls(s)) = 3
        /\ Calls(s)[1].op = "end" /\ Calls(s)[1].ret = "ok"
        /\ Calls(s)[2].op = "fail" /\ Calls(s)[2].ret = "notsupported"
        /\ Calls(s)[3].by = "framework" /\ Calls(s)[3].ret = "notsupported"
        /\ Cardinality(FramesOf(s)) = 1

C6_WaitBeforeClose ==
    conn = "closedNow" \/ loop = "returned" =>
        /\ \A s \in DOMAIN scopes : scopes[s].pc = "done"
        /\ outbox = {}
        /\ writing = {}

\* C6's case: the loop has left on an envelope decode error and waits, the
\* connection still open, for a handler that is sending.
C6_Witness ==
    /\ loop = "wait"
    /\ result = "error"
    /\ conn = "open"
    /\ \E s \in DOMAIN scopes : scopes[s].pc = "writing"

\* What the program does by itself, the peer sending nothing more and the
\* server's context left alone.
ProgramStep ==
    \/ \E status \in {-1, 1000} : ReadError(status)
    \/ Unwind
    \/ \E s \in DOMAIN scopes, op \in ScopeOps(proto) : UserCall(s, op)
    \/ \E s \in DOMAIN scopes, op \in OutOfBand(proto) : UserSend(s, op)
    \/ \E s \in DOMAIN scopes, r \in {"nil", "badout", "err"} : UserReturn(s, r)
    \/ \E s \in DOMAIN scopes : AwaitReturn(s)
    \/ \E f \in outbox : WriteBegin(f)
    \/ \E f \in writing : WriteEnd(f)
    \/ \E f \in outbox : WriteFail(f)

\* C7: when the transport has closed while a handler waits for its context
\* to be cancelled, and the loop has not failed, the context is cancelled or
\* the program can still take a step towards it: the handler is never left
\* waiting for good.
C7_CancelOnClose ==
    \A s \in DOMAIN scopes :
        Running /\ scopes[s].pc = "await" /\ conn = "closed" /\ result # "error"
            => ctxDone \/ ENABLED ProgramStep

ReadSome == \E req \in Requests(proto, Len(scopes) + 1) : Read(req)

\* C8: while the connection is open and the loop is reading, the next
\* request can be read and dispatched whatever the handlers are doing.
C8_LoopNeverWaits ==
    Running /\ loop = "reading" /\ Writable /\ Len(scopes) < MaxRequests
        => ENABLED ReadSome

\* C8's case: the handler of the first request has not responded yet, and
\* the terminal response of a later request is already on the wire.
C8_Witness ==
    \E s, t \in DOMAIN scopes :
        /\ s < t
        /\ scopes[s].pc \in {"user", "await"}
        /\ Calls(s) = <<>>
        /\ scopes[t].pc = "done"
        /\ \E i \in DOMAIN wire :
                /\ wire[i].frame.rq = t
                /\ wire[i].part = "tail"
                /\ wire[i].frame.method \in {"succ", "fail", "end"}

\* C9: the frames of one request are on the wire in the order of the Scope
\* calls that issued them, and a call that returned without error has its
\* whole frame there.
C9_PerRequestOrder ==
    /\ \A i, j \in DOMAIN wire :
            i < j /\ wire[i].frame.rq = wire[j].frame.rq
                => wire[i].frame.n <= wire[j].frame.n
    /\ \A s \in DOMAIN scopes :
            \A k \in DOMAIN Calls(s) :
                Calls(s)[k].ret = "ok" =>
                    \E i \in DOMAIN wire :
                        /\ wire[i].part = "tail"
                        /\ wire[i].frame.rq = s
                        /\ wire[i].frame.n = k

\* C9's case: two frames of one request (a Yield frame and the frame of a
\* later call) are on the wire with a frame of another request between them.
C9_Witness ==
    \E i, j, k \in DOMAIN wire :
        /\ i < j /\ j < k
        /\ wire[i].frame.rq = wire[k].frame.rq
        /\ wire[i].frame.n < wire[k].frame.n
        /\ wire[i].frame.method = "yield"
        /\ wire[j].frame.rq # wire[i].frame.rq

\* A request with no handler: an mrpc method that is neither "call" nor
\* "start", or a function missing from the table of its kind.
NoHandler(req) ==
    IF proto = "mrpc"
    THEN \/ req.kind \notin {"call", "start"}
         \/ req.kind = "call" /\ req.fn \notin callHandlers
         \/ req.kind = "start" /\ req.fn \notin startHandlers
    ELSE \/ req.id = 0 /\ req.fn \notin procHandlers
         \/ req.id # 0 /\ req.fn \notin callHandlers

\* The handler of a request with no handler makes one call, Fail with code
\* 404 and the not-found message, and every frame of the request is that
\* failure with the request's id.
C10_OneNotFound ==
    \A s \in DOMAIN scopes :
        NoHandler(scopes[s].req) =>
            /\ Len(Calls(s)) = 1
            /\ Calls(s)[1].op = "fail"
            /\ Calls(s)[1].code = 404
            /\ Handed(Calls(s)[1])
            /\ Calls(s)[1].msg =
                    IF proto = "mrpc" /\ scopes[s].req.kind \notin {"call", "start"}
                    THEN <<"method not found">>
                    ELSE <<"function", scopes[s].req.fn, "not found">>
            /\ \A f \in FramesOf(s) :
                    /\ f.id = scopes[s].req.id
                    /\ f.method = "fail"
                    /\ f.code = 404
                    /\ f.msg = Calls(s)[1].msg

\* A step of a handler or of a writer leaves the loop and the connection as
\* they are.
C10_ConnectionKept ==
    scopes' # scopes /\ Len(scopes') = Len(scopes) =>
        /\ loop' = loop
        /\ conn' = conn
        /\ result' = result

----------------------------------------------------------------------------
\* A request routed to a registered handler.
Routed(s) == handleRequest(proto, scopes[s].req) \in {"call", "start", "proc"}

NoUserTerminal(s) ==
    \A i \in DOMAIN Calls(s) : Calls(s)[i].by = "user" => ~Terminal(Calls(s)[i])

\* The user function of a request that had responded with nothing terminal
\* returned an error: the wrapper's Fail(500) with the error's text is the
\* one terminal call of the Scope, it is handed to send, and no frame of the
\* request is a success or an end.
C12_OneFailure ==
    \A s \in DOMAIN scopes :
        scopes[s].ret = "err" /\ NoUserTerminal(s) =>
            LET cs == Calls(s)
                last == Len(cs)
            IN  /\ last > 0
                /\ cs[last].op = "fail"
                /\ cs[last].code = 500
                /\ cs[last].msg = <<"error">>
                /\ cs[last].by = "framework"
                /\ Handed(cs[last])
                /\ \A i \in DOMAIN cs : Terminal(cs[i]) => i = last
                /\ \A f \in FramesOf(s) :
                        /\ f.method \notin {"succ", "end"}
                        /\ f.method = "fail" => f.code = 500 /\ f.msg = <<"error">>

\* The step in which a user function returns an error changes neither the
\* loop nor the connection.
C12_ConnectionKept ==
    (\E s \in DOMAIN scopes : scopes[s].ret # "err" /\ scopes'[s].ret = "err") =>
        /\ loop' = loop
        /\ conn' = conn
        /\ result' = result
        /\ process' = process

----------------------------------------------------------------------------
\* C13: a message that does not decode into a Request does not stop the
\* loop: while the process runs and the connection can be read, the loop
\* stays at its read.
C13_DecodeErrorKeepsLoop ==
    [][Running /\ loop = "reading" /\ Writable => loop' = "reading"]_vars

\* The loop leaves its read while the connection is readable (a message came
\* that does not decode into a Request): it goes to its deferred calls with
\* the error as its result, and no Scope is made and no frame sent for the
\* message.
C14_LeavesWithError ==
    Running /\ loop = "reading" /\ Writable /\ loop' # "reading" =>
        /\ loop' = "wait"
        /\ result' = "error"
        /\ conn' = conn
        /\ scopes' = scopes
        /\ outbox' = outbox
        /\ writing' = writing
        /\ wire' = wire

\* Once the loop has left, it reads nothing more and its result stays.
C14_NoReadAfter ==
    loop # "reading" =>
        /\ loop' # "reading"
        /\ Len(scopes') = Len(scopes)
        /\ result' = result

\* serveHTTP returns its result only when every handler has returned.
C14_ReturnsAfterHandlers ==
    loop = "returned" =>
        /\ result \in {"nil", "error"}
        /\ \A s \in DOMAIN scopes : scopes[s].pc = "done"

\* C14: a message that does not decode into a Request ends the connection:
\* the loop stops reading, sends nothing for the message, waits for the
\* handlers in flight and returns the decode error.
C14_DecodeErrorEnds ==
    /\ [][C14_LeavesWithError]_vars
    /\ [][C14_NoReadAfter]_vars
    /\ []C14_ReturnsAfterHandlers

\* C14's case: the loop has left on a message that did not decode (the
\* connection is still open and the context live), no Scope was made for
\* the message, and serveHTTP waits with the error for a user function that
\* is still running.
C14_Witness ==
    /\ loop = "wait"
    /\ result = "error"
    /\ conn = "open"
    /\ ~ctxDone
    /\ Len(scopes) = 1
    /\ scopes[1].pc = "user"
    /\ Len(wire) = 2

\* C15: a read that fails while the request's context is not cancelled (the
\* transport failed, or the peer closed) makes the loop leave with no error.
C15_ReadErrorResult ==
    [][Running /\ loop = "reading" /\ ~Writable /\ ~ctxDone /\ loop' = "wait"
            => result' = "nil"]_vars

\* C16: a response attempted on a Scope whose terminal response has been
\* sent hands nothing to send: no frame of the request comes from it.
C16_LateResponseInert ==
    \A s \in DOMAIN scopes :
        \A i, j \in DOMAIN Calls(s) :
            /\ i < j
            /\ Terminal(Calls(s)[i])
            /\ Calls(s)[i].ret = "ok"
            /\ Calls(s)[j].op \in ScopeOps(proto)
            => \A f \in FramesOf(s) : f.n # j

\* C18: Notify and Call, wherever the handler calls them, send their
\* message or return an error.
C18_OutOfBandIndependent ==
    \A s \in DOMAIN scopes :
        \A j \in DOMAIN Calls(s) :
            Calls(s)[j].op \in OutOfBand(proto)
                => Calls(s)[j].ret \in {"pending", "ok", "write"}

\* C19: the serving process is never ended by a panic.
C19_NeverPanics == process = "running"

\* C20: an mrpc request is looked up in the table of its kind alone: a
\* "call" of a CallFn name is answered by the CallFn wrapper (Succ or Fail,
\* never End), a "start" of a StartFn name by the StartFn wrapper (End or
\* Fail, never Succ), and a name missing from the table of the request's
\* kind gets the 404, whatever the other table holds.
C20_TwoTables ==
    \A s \in DOMAIN scopes :
        LET req == scopes[s].req
            cs == Calls(s)
            own == {i \in DOMAIN cs : cs[i].by = "framework"}
            notFound == /\ Len(cs) = 1
                        /\ cs[1].op = "fail"
                        /\ cs[1].code = 404
                        /\ cs[1].msg = <<"function", req.fn, "not found">>
        IN  proto = "mrpc" =>
                /\ req.kind = "call" /\ req.fn \in callHandlers =>
                        /\ \A i \in own : cs[i].op \in {"succ", "fail"} /\ cs[i].code # 404
                        /\ scopes[s].ret \in {"nil", "badout"} => cs[Len(cs)].op = "succ"
                /\ req.kind = "start" /\ req.fn \in startHandlers =>
                        /\ \A i \in own : cs[i].op \in {"end", "fail"} /\ cs[i].code # 404
                        /\ scopes[s].ret = "nil" => cs[Len(cs)].op = "end"
                /\ req.kind = "call" /\ req.fn \notin callHandlers => notFound
                /\ req.kind = "start" /\ req.fn \notin startHandlers => notFound

\* C20's case: on one connection, a "call" and a "start" of the name
\* registered in both tables have been answered, the one with a success and
\* the other with an end.
C20_Witness ==
    \E s, t \in DOMAIN scopes :
        /\ proto = "mrpc"
        /\ scopes[s].req.fn = scopes[t].req.fn
        /\ scopes[s].req.fn \in callHandlers \cap startHandlers
        /\ scopes[s].req.kind = "call"
        /\ scopes[t].req.kind = "start"
        /\ \E i, j \in DOMAIN wire :
                /\ wire[i].part = "tail" /\ wire[j].part = "tail"
                /\ wire[i].frame.rq = s /\ wire[i].frame.method = "succ"
                /\ wire[j].frame.rq = t /\ wire[j].frame.method = "end"

----------------------------------------------------------------------------
\* The middleware named by the events ev of the log, in order.
Events(ev) ==
    LET sel == SelectSeq(log, LAMBDA e : e.ev = ev)
    IN  [i \in DOMAIN sel |-> sel[i].fn]

\* s is the beginning of t.
IsPrefix(s, t) == Len(s) <= Len(t) /\ \A i \in DOMAIN s : s[i] = t[i]

Reverse(s) == [i \in DOMAIN s |-> s[Len(s) + 1 - i]]

\* C17: a request enters the middleware in the order of their registration,
\* the first registered first, and once it has been through them all and
\* back it has left them in the reverse order.
C17_FirstUseOutermost ==
    /\ IsPrefix(Events("enter"), Events("use"))
    /\ Dispatched /\ stack = <<>> => Events("leave") = Reverse(Events("use"))

----------------------------------------------------------------------------
\* C21: a jrpc message is looked up in the table its id selects and in no
\* other: without an id it is answered by the Proc wrapper of its method (no
\* response when the user function returns) or by the 404 when procHandlers
\* lacks the method, with an id by the Fn wrapper (Succ or Fail) or by the
\* 404 when callHandlers lacks it, whatever the other table holds.
C21_TableById ==
    \A s \in DOMAIN scopes :
        LET req == scopes[s].req
            cs == Calls(s)
            own == {i \in DOMAIN cs : cs[i].by = "framework"}
            notFound == /\ Len(cs) = 1
                        /\ cs[1].op = "fail"
                        /\ cs[1].code = 404
                        /\ cs[1].msg = <<"function", req.fn, "not found">>
        IN  proto = "jrpc" =>
                /\ req.id = 0 /\ req.fn \in procHandlers =>
                        \A i \in own : cs[i].op = "fail" /\ cs[i].code = 406
                /\ req.id # 0 /\ req.fn \in callHandlers =>
                        /\ \A i \in own : cs[i].op \in {"succ", "fail"} /\ cs[i].code # 404
                        /\ scopes[s].ret \in {"nil", "badout"} =>
                                cs[Len(cs)].op = "succ" /\ cs[Len(cs)].by = "framework"
                /\ req.id = 0 /\ req.fn \notin procHandlers => notFound
                /\ req.id # 0 /\ req.fn \notin callHandlers => notFound

\* C21's case: on one connection the method registered in both tables was
\* asked for without an id and with one: the Proc wrapper's user function
\* returned and nothing was sent for it, and the Fn wrapper's success is on
\* the wire.
C21_Witness ==
    \E s, t \in DOMAIN scopes :
        /\ proto = "jrpc"
        /\ scopes[s].req.fn = scopes[t].req.fn
        /\ scopes[s].req.fn \in callHandlers \cap procHandlers
        /\ scopes[s].req.id = 0
        /\ scopes[s].pc = "done"
        /\ scopes[s].ret = "nil"
        /\ Calls(s) = <<>>
        /\ scopes[t].req.id # 0
        /\ \E i \in DOMAIN wire :
                /\ wire[i].part = "tail"
                /\ wire[i].frame.rq = t
                /\ wire[i].frame.method = "succ"

\* C24: every response a Scope has handed to send, queued, being written or
\* on the wire, carries the id of the request the Scope was made for.
C24_ResponseIds ==
    \A s \in DOMAIN scopes :
        \A f \in FramesOf(s) :
            f.method \in ScopeOps(proto) => f.id = scopes[s].req.id

\* C24's case: the responses of two requests with different ids are on the
\* wire, one of the second request before one of the first.
C24_Witness ==
    \E i, j \in DOMAIN wire :
        /\ i < j
        /\ wire[i].part = "tail"
        /\ wire[j].part = "tail"
        /\ wire[i].frame.rq > wire[j].frame.rq
        /\ wire[i].frame.id # wire[j].frame.id
        /\ wire[i].frame.method \in ScopeOps(proto)
        /\ wire[j].frame.method \in ScopeOps(proto)

\* C25: no streaming-item frame is put on the transport for a request of
\* kind "call".
C25_YieldOnlyStreams ==
    \A i \in DOMAIN wire :
        wire[i].frame.method = "yield" => scopes[wire[i].frame.rq].req.kind # "call"

----------------------------------------------------------------------------
\* The user function of the last registration under key among the first n
\* entries of the log, "nil" when there is none.
LastRegistered(key, n) ==
    LET regs == {i \in 1..n : log[i].ev = "register" /\ log[i].key = key}
    IN  IF regs = {} THEN "nil"
        ELSE log[CHOOSE i \in regs : \A j \in regs : j <= i].fn

\* C22: a lookup of a name in a table finds the user function of the last
\* registration of that name in that table ("nil" when there was none),
\* whatever was registered under other names or in the other table, and the
\* tables hold just that for every name while the options are applied.
C22_LastRegistrationWins ==
    /\ \A i \in DOMAIN log :
            log[i].ev = "dispatch" => log[i].fn = LastRegistered(log[i].key, i)
    /\ \A tb \in TablesOf(proto), name \in Names :
            tables[tb][name] = LastRegistered(<<tb, name>>, Len(log))

\* C22's case: a name was registered twice in one table, with different
\* user functions, and once in the other table in between or after, and a
\* request has looked it up in the first.
C22_Witness ==
    \E i, j, k, d \in DOMAIN log :
        /\ i < j /\ j < d /\ k < d
        /\ log[i].ev = "register" /\ log[j].ev = "register"
        /\ log[i].key = log[j].key
        /\ log[i].fn # log[j].fn
        /\ log[k].ev = "register"
        /\ log[k].key # log[i].key
        /\ log[k].key[2] = log[i].key[2]
        /\ log[d].ev = "dispatch"
        /\ log[d].key = log[i].key
        /\ log[d].fn = log[j].fn

\* Once cfg.init has applied its options, no step writes the tables or
\* cfg.handler.
C23_ReadOnly ==
    options = <<>> => tables' = tables /\ handler' = handler

\* C23: the handler tables and the wrapped handler are written only while
\* Handle applies its options; serving a request leaves them as they are.
C23_ConfigThenConstant == [][C23_ReadOnly]_vars

\* C23's case: a request has gone through two middleware of a configured
\* Handle to a registered user function and back.
C23_Witness ==
    /\ options = <<>>
    /\ Len(handler) = 2
    /\ Dispatched
    /\ stack = <<>>
    /\ \E i \in DOMAIN log : log[i].ev = "dispatch" /\ log[i].fn \in UserFns

----------------------------------------------------------------------------
\* Hook d depends on a name that hook p provides.
DependsOnHook(d, p) ==
    \E k \in DOMAIN hooks[d].depends :
        hooks[d].depends[k] \in Range(hooks[p].provides)

\* No hook depends on itself, directly or through other hooks.
Acyclic ==
    LET R == {e \in (DOMAIN hooks) \X (DOMAIN hooks) : DependsOnHook(e[1], e[2])}
        step(S) == S \cup {e \in (DOMAIN hooks) \X (DOMAIN hooks) :
                              \E m \in DOMAIN hooks : <<e[1], m>> \in S /\ <<m, e[2]>> \in S}
        closure == step(step(step(R)))
    IN  \A i \in DOMAIN hooks : <<i, i>> \notin closure

\* Where hook i stands in the result.
Pos(i) == CHOOSE k \in DOMAIN order : order[k] = i

\* C26: when the depends-on relation is acyclic, a hook is put in the result
\* only after every hook that provides a name it depends on, so that in the
\* returned order every provider stands before every dependent.
C26_ProvidersFirst ==
    Acyclic =>
        \A d, p \in DOMAIN hooks :
            DependsOnHook(d, p) /\ d \in Range(order) =>
                p \in Range(order) /\ Pos(p) < Pos(d)

\* C26's case: Order returned for an acyclic input of three hooks in which
\* the first depends on the second and the second on the third, and the
\* result is the input reversed.
C26_Witness ==
    /\ returned
    /\ Acyclic
    /\ Len(hooks) = 3
    /\ DependsOnHook(1, 2)
    /\ DependsOnHook(2, 3)
    /\ order = <<3, 2, 1>>

\* The result holds every hook of the input once.
Permutation ==
    /\ Len(order) = Len(hooks)
    /\ Range(order) = DOMAIN hooks

\* The sum of a sequence of numbers.
RECURSIVE Sum(_)
Sum(s) == IF s = <<>> THEN 0 ELSE Head(s) + Sum(Tail(s))

\* The steps a first call of place(i) takes by itself: it is entered, visits
\* one item for every name hooks[i] depends on and every hook that provides
\* the name, and appends.
Work(i) ==
    2 + Cardinality({e \in (DOMAIN hooks[i].depends) \X (DOMAIN hooks) :
                        hooks[i].depends[e[1]] \in Range(hooks[e[2]].provides)})

\* A bound on the steps Order has left: the first loop, the calls of the
\* last loop, the items and the append of every place on the stack, the
\* work of every hook not placed yet, and the return.
Remaining ==
    (IF returned THEN 0 ELSE 1)
        + (Len(hooks) + 1 - next)
        + Sum([k \in DOMAIN frames |-> 1 + Len(frames[k].items)])
        + Sum([i \in DOMAIN hooks |-> IF i \in placed THEN 0 ELSE Work(i)])

\* Order has a step to take: the first loop, a place on the stack that goes
\* on to its next item or to its append, a call of the last loop, or the
\* return.
Stepping ==
    \/ next = 0
    \/ frames # <<>>
    \/ frames = <<>> /\ next \in 1..(Len(hooks) + 1)

\* Until it has returned Order has a step to take, place never nests deeper
\* than there are hooks, and the result returned holds every hook once.
C27_Progress ==
    /\ ~returned => Stepping
    /\ Len(frames) <= Len(hooks)
    /\ returned => Permutation

\* Every step leaves fewer steps to take.
C27_Decreases == Remaining' < Remaining /\ Remaining' >= 0

\* C27: on every input, cyclic ones included, Order returns after a bounded
\* number of steps (every step lowers a natural number and a step is there
\* to take until Order has returned), it has no error to report, and the
\* result is an ordering of all the hooks of the input.
C27_Terminates == []C27_Progress /\ [][C27_Decreases]_vars

\* C27's case: Order returned for an input in which one hook depends on a
\* name it provides itself and two other hooks depend on each other.
C27_Witness ==
    /\ returned
    /\ \E i, j, k \in DOMAIN hooks :
            /\ i # j /\ i # k /\ j # k
            /\ DependsOnHook(i, i)
            /\ DependsOnHook(j, k)
            /\ DependsOnHook(k, j)

\* No hook depends on a name provided by a hook that comes later in the
\* input.
NoAdjustment ==
    \A d, p \in DOMAIN hooks : DependsOnHook(d, p) => p <= d

\* C28: when no adjustment is needed, Order returns the hooks in the order
\* they were provided.
C28_InputOrderKept ==
    returned /\ NoAdjustment => order = [i \in 1..Len(hooks) |-> i]

\* C28's case: Order returned for three hooks of which the third depends on
\* names the first and the second provide, and the second on a name it
\* provides itself.
C28_Witness ==
    /\ returned
    /\ NoAdjustment
    /\ Len(hooks) = 3
    /\ DependsOnHook(3, 1)
    /\ DependsOnHook(3, 2)
    /\ DependsOnHook(2, 2)
    /\ order = <<1, 2, 3>>

----------------------------------------------------------------------------
\* C29: in both encodings the response decoded from the bytes a Response was
\* encoded to equals the Response in id, method (jrpc: which of result and
\* error it has, and end) and output, a response without output included.
C29_RoundTrip ==
    decoded # <<>> => decoded = <<response>>

\* C29's case: an mrpc response without output, the "end" of a stream, was
\* encoded to the array header, the id, the method and nil, and decoded.
C29_Witness ==
    /\ proto = "mrpc"
    /\ decoded = <<response>>
    /\ response.Method = "end"
    /\ response.Output = NilValue
    /\ Len(bytes) = 4
    /\ bytes[4].t = "nil"

----------------------------------------------------------------------------
\* The position in apiOptions of the Handle or FS that made
\* patternHandlers[k].
HandleAt(k) ==
    LET at == {j \in DOMAIN apiOptions : apiOptions[j].opt \in {"handle", "fs"}}
    IN  CHOOSE j \in at : Cardinality({i \in at : i <= j}) = k

\* The middleware added before position j and in effect there, in the order
\* it was added: that of every Use before j whose Group, if it is in one,
\* has not ended before j.
AddedBefore(j) ==
    LET uses == SelectSeq([i \in 1..(j - 1) |-> i],
                          LAMBDA i : /\ apiOptions[i].opt = "use"
                                     /\ \A e \in i..(j - 1) :
                                            Depth(apiOptions, e) >= Depth(apiOptions, i))
    IN  [n \in DOMAIN uses |-> apiOptions[uses[n]].fn]

\* C30: every handler registered through Handle is wrapped in the middleware
\* added before it, the earliest added outermost, so that a request passes
\* the middleware in the order it was added and then reaches the handler.
C30_EarliestOutermost ==
    /\ \A k \in DOMAIN patternHandlers :
            apiOptions[HandleAt(k)].opt = "handle" =>
                patternHandlers[k].handler
                    = AddedBefore(HandleAt(k)) \o <<apiOptions[HandleAt(k)].fn>>
    /\ passed # <<>> /\ passed[Len(passed)] # "fs" =>
            \E k \in DOMAIN patternHandlers :
                /\ passed[Len(passed)] = apiOptions[HandleAt(k)].fn
                /\ passed = AddedBefore(HandleAt(k)) \o <<apiOptions[HandleAt(k)].fn>>

\* C30's case: Use was stacked twice with different middleware before a
\* handler, and a request has passed the first, then the second, and
\* reached the handler.
C30_Witness ==
    /\ Len(passed) = 3
    /\ passed[1] # passed[2]
    /\ \E i, j, h \in DOMAIN apiOptions :
            /\ i < j /\ j < h
            /\ apiOptions[i] = [opt |-> "use", pattern |-> "-", fn |-> passed[1]]
            /\ apiOptions[j] = [opt |-> "use", pattern |-> "-", fn |-> passed[2]]
            /\ apiOptions[h].opt = "handle"
            /\ apiOptions[h].fn = passed[3]

----------------------------------------------------------------------------
\* A user function of a StartFn handler that ended its stream itself: it
\* called End or Fail, and of the terminal methods no other.
EndsItself(s) ==
    /\ \E i \in DOMAIN Calls(s) :
            Calls(s)[i].by = "user" /\ Calls(s)[i].op \in {"end", "fail"}
    /\ \A i \in DOMAIN Calls(s) : Calls(s)[i].by = "user" => Calls(s)[i].op # "succ"

C35_DisabledWrittenOrNot ==
    \A s \in DOMAIN scopes :
        LET cs == Calls(s)
            ended == {i \in DOMAIN cs : cs[i].op \in {"fail", "end"} /\ cs[i].ret # "pending"}
        IN  /\ ended # {} => ~scopes[s].send
            /\ \A i \in ended, j \in DOMAIN cs :
                    i < j /\ cs[j].op \in ScopeOps(proto) => cs[j].ret = "notsupported"
            /\ Cardinality({i \in DOMAIN cs : cs[i].op \in {"fail", "end"} /\ Handed(cs[i])}) <= 1

\* C35's case: a user function called Fail, the write of its frame failed
\* and Fail returned the error; the function then tried Fail again and was
\* refused, and nothing of the request is on the wire or on its way.
C35_Witness ==
    \E s \in DOMAIN scopes :
        /\ Len(Calls(s)) >= 2
        /\ Calls(s)[1].op = "fail" /\ Calls(s)[1].by = "user" /\ Calls(s)[1].ret = "write"
        /\ Calls(s)[2].op = "fail" /\ Calls(s)[2].by = "user"
        /\ Calls(s)[2].ret = "notsupported"
        /\ \A f \in FramesOf(s) : f.n = 1 /\ f \notin outbox \cup writing

\* C36: no call the framework makes on the Scope of a jrpc notification (a
\* request without an id) hands a response to send, whether the method is
\* registered with Proc, unknown, or its params do not decode.
C36_NotificationsUnanswered ==
    \A s \in DOMAIN scopes :
        proto = "jrpc" /\ scopes[s].req.id = 0 =>
            \A i \in DOMAIN Calls(s) :
                Calls(s)[i].by = "framework" => ~Handed(Calls(s)[i])
----------------------------------------------------------------------------
\* C37: a frame of the other type (a text frame to mrpc, a binary frame to
\* jrpc) is discarded: the step that reads it leaves the loop reading,
\* makes no Scope, hands nothing to send, writes nothing and leaves the
\* connection and serveHTTP's result as they were; the frames read after it
\* are served as before.
C37_OtherTypeDiscarded ==
    [][skipped' # skipped =>
        /\ loop = "reading" /\ loop' = "reading"
        /\ scopes' = scopes
        /\ outbox' = outbox
        /\ writing' = writing
        /\ wire' = wire
        /\ result' = result
        /\ conn' = conn]_vars

\* Both packages skip frames, and the request that follows two skipped
\* frames is dispatched and answered.
C37_Witness ==
    /\ skipped = <<0, 0>>
    /\ Len(scopes) = 1
    /\ loop = "reading"
    /\ \E i \in DOMAIN wire : wire[i].frame.rq = 1

----------------------------------------------------------------------------
\* C31: every handler an option registers, by Handle, HandleFunc, mrpc.API,
\* jrpc.API or FS, is wrapped by the middleware of every Use before it in
\* its option list (and in the lists around it), and by that of no Use
\* after it.
C31_UseWrapsAllLater ==
    \A k \in DOMAIN patternHandlers :
        patternHandlers[k].handler
            = AddedBefore(HandleAt(k)) \o <<apiOptions[HandleAt(k)].fn>>

----------------------------------------------------------------------------
\* C38: the result of Order is a permutation of its input. While Order runs
\* no hook stands twice in the result and only hooks marked placed stand in
\* it, and the result returned has every hook of the input exactly once,
\* whatever the hooks provide and depend on.
C38_PermutationOfInput ==
    /\ \A a, b \in DOMAIN order : order[a] = order[b] => a = b
    /\ Range(order) \subseteq placed
    /\ placed \subseteq DOMAIN hooks
    /\ returned =>
            /\ Len(order) = Len(hooks)
            /\ \A i \in DOMAIN hooks : Cardinality({k \in DOMAIN order : order[k] = i}) = 1

\* C38's case: Order returned for three hooks whose depends-on relation has
\* a cycle, with a name two of them provide and a name one of them depends
\* on and none provides.
C38_Witness ==
    /\ returned
    /\ Len(hooks) = 3
    /\ ~Acyclic
    /\ \E name \in Capabilities : Len(dependencies[name]) >= 2
    /\ \E name \in Capabilities, d \in DOMAIN hooks :
            /\ name \in Range(hooks[d].depends)
            /\ dependencies[name] = <<>>

----------------------------------------------------------------------------
\* A serveListeners has started its servers and has not returned.
Busy == \E d \in DOMAIN callers : callers[d].pc \in {"serving", "stopping"}

\* Goroutine c calls Apply, or Serve, in this step.
Applied(c) == callers[c].pc = "idle" /\ callers'[c].op = "Apply"
Served(c) == callers[c].pc = "idle" /\ callers'[c].op = "Serve"

\* C32: once servers have been started the serve flag is set, and every
\* Apply called from then on returns an error, "... while a rig is running"
\* as long as the serveListeners that started them has not returned and
\* "... after a rig has been run" afterwards, and leaves the hooks of the
\* Config as they were: none of its options is applied and nothing is
\* reordered.
C32_RejectedOnceRun ==
    /\ [](servers > 0 => serve)
    /\ [][\A c \in DOMAIN callers :
            Applied(c) /\ servers > 0 =>
                /\ callers'[c].pc = "returned"
                /\ callers'[c].ret =
                        IF Busy THEN "cannot apply options while a rig is running"
                        ELSE "cannot apply options after a rig has been run"
                /\ cfgHooks' = cfgHooks]_vars

\* C32's case: a Config with hooks was served and the serving has ended; an
\* Apply with a hook option called while it was serving returned the one
\* error, and another called afterwards the other.
C32_Witness ==
    /\ cfgHooks # <<>>
    /\ ~Busy
    /\ \E a, b \in DOMAIN callers :
            /\ callers[a].op = "Apply"
            /\ callers[a].ret = "cannot apply options while a rig is running"
            /\ callers[a].options > 0
            /\ callers[b].op = "Apply"
            /\ callers[b].ret = "cannot apply options after a rig has been run"
            /\ callers[b].options > 0

\* C33: a Config is served at most once. A serveListeners called while one
\* is serving, called after one has served, or called with no listeners
\* returns its error and starts no server; servers are started only when
\* none was started before; and the serve flag, once set, stays set.
C33_ServedAtMostOnce ==
    /\ [][\A c \in DOMAIN callers :
            Served(c) =>
                /\ Busy =>
                        /\ callers'[c].ret = "you are already serving this rig"
                        /\ servers' = servers
                /\ ~Busy /\ servers > 0 =>
                        /\ callers'[c].ret = "cannot serve a rig more than once"
                        /\ servers' = servers
                /\ ~Busy /\ servers = 0 /\ servers' = 0 =>
                        callers'[c].ret = "no listeners for service"
                /\ servers' = servers <=> callers'[c].pc = "returned"]_vars
    /\ [][servers' # servers => servers = 0 /\ ~serve /\ serve']_vars
    /\ [][serve => serve']_vars

\* C33's case: after a serveListeners served and returned, the Config holds
\* its servers' count, and three calls have returned the three errors.
C33_Witness ==
    /\ servers > 0
    /\ serve
    /\ ~serving
    /\ \E a, b, c \in DOMAIN callers :
            /\ callers[a].ret = "you are already serving this rig"
            /\ callers[b].ret = "cannot serve a rig more than once"
            /\ callers[c].ret = "no listeners for service"

\* hooks[d] of hs depends on a name hooks[p] provides.
DependsOnAt(hs, d, p) ==
    \E k \in DOMAIN hs[d].depends : hs[d].depends[k] \in Range(hs[p].provides)

\* No hook of hs depends on itself, directly or through other hooks.
AcyclicHooks(hs) ==
    LET R == {e \in (DOMAIN hs) \X (DOMAIN hs) : DependsOnAt(hs, e[1], e[2])}
        step(S) == S \cup {e \in (DOMAIN hs) \X (DOMAIN hs) :
                              \E m \in DOMAIN hs : <<e[1], m>> \in S /\ <<m, e[2]>> \in S}
        closure == step(step(step(R)))
    IN  \A i \in DOMAIN hs : <<i, i>> \notin closure

\* The hook lists Order returns for the lists a Config can hold.
Ordered == {Order(hs) : hs \in UNION {[1..n -> RigHooks] : n \in 0..MaxRigHooks}}

\* An Apply that succeeds and adds no hook leaves hooks that an Order has
\* ordered, and that have no cycle, as they are.
ApplyKeepsOrder ==
    [][\A c \in DOMAIN callers :
            /\ Applied(c)
            /\ callers'[c].ret = "nil"
            /\ callers'[c].options = 0
            /\ cfgHooks \in Ordered
            /\ AcyclicHooks(cfgHooks)
            => cfgHooks' = cfgHooks]_vars

\* The steps of Order agree with Order as a function.
OrderAgrees == returned => order = OrderIndices(hooks)

\* C39: Order is idempotent on acyclic inputs: when Order has returned for an
\* input without a cycle, Order of the list it returned puts every hook
\* where it stands, Order(Order(h)) = Order(h). Apply ends with cfg.hooks =
\* hook.Order(cfg.hooks...), so an Apply that adds no hook leaves an order
\* that an earlier Apply fixed as it is.
C39_OrderIdempotent ==
    returned /\ Acyclic =>
        LET ordered == [k \in DOMAIN order |-> hooks[order[k]]]
        IN  /\ OrderIndices(ordered) = [k \in DOMAIN ordered |-> k]
            /\ Order(ordered) = ordered

\* C39's case: Order returned for an acyclic input of three hooks that it
\* had to reorder: the first depends on the third and the third on the
\* second, so the result is the second, the third, the first.
C39_Witness ==
    /\ returned
    /\ Acyclic
    /\ Len(hooks) = 3
    /\ DependsOnHook(1, 3)
    /\ DependsOnHook(3, 2)
    /\ ~DependsOnHook(1, 2)
    /\ order = <<2, 3, 1>>

----------------------------------------------------------------------------
\* C40: every call of Shutdown returns, and once a call of Shutdown has
\* returned the goroutine process terminates, closing doneCh, whether or
\* not Shutdown is called again, however the calls fall among the events
\* being processed and the alerts being issued.
C40_ShutdownStopsProcess ==
    /\ \A c \in 1..MaxShutdowns :
            (shutdowns[c] = "select") ~> (shutdowns[c] = "returned")
    /\ (\E c \in 1..MaxShutdowns : shutdowns[c] = "returned")
            ~> (doneCh /\ processing = "returned")

\* What C40 rests on: when a Shutdown has returned, process is about to
\* close doneCh or has closed it.
ShutdownReceivedByProcess ==
    (\E c \in 1..MaxShutdowns : shutdowns[c] = "returned")
        => processing \in {"close", "returned"}

====
